---- MODULE Spec2Model ----
(***************************************************************************)
(* The empty-shelf classification engine: the seven detector classes       *)
(* (EnhancedShelfDetector, YOLOShelfDetector, ImprovedYOLODetector,        *)
(* YOLOv8mShelfDetector, EnhancedVideoShelfDetector, AdvancedShelfDetector,*)
(* SimpleShelfDetector), one detector instance per behaviour.              *)
(*                                                                         *)
(* Units.  Confidences and scores in [0,1] are integers in millionths      *)
(* (ONE = 1.0).  Extractor scores are hundredths.  Sensitivity is in       *)
(* tenths (7 = 0.7).  Timestamps and cooldowns are in twentieths of a      *)
(* second (40 = 2.0 s).  The image operators of OpenCV are the             *)
(* environment: a call's region is given by its shape and by the feature   *)
(* values the extractors compute from it.                                  *)
(***************************************************************************)
EXTENDS Integers, Sequences, FiniteSets, TLC

VARIABLES
    cls,                \* the class of the detector instance
    sensitivity,        \* self.sensitivity, tenths
    supplied_sensitivity, \* the sensitivity argument of the last __init__ or
                        \* update_sensitivity call, tenths
    empty_threshold,    \* self.empty_threshold (AdvancedShelfDetector), millionths
    yolo_model,         \* self.yolo_model (YOLOv8mShelfDetector): "loaded" or "None"
    detection_history,  \* self.detection_history: shelf name -> list of records
    alert_cooldown,     \* self.alert_cooldown: shelf name -> last alert timestamp
    frame_count,        \* self.frame_count
    ret,                \* the last call: its arguments and what it returned
    alert_log,          \* the alert events the caller has received, in order
    alone,              \* section "A" in a second detector of the same class,
                        \* which receives the calls for section "A" only
    system,             \* the ShelfMonitoringSystem of main.py with its
                        \* YOLODetector and AlertSystem, once constructed
    app                 \* the ModernShelfMonitoringApp of modern_gui.py with
                        \* its monitoring threads, once constructed

vars == <<cls, sensitivity, supplied_sensitivity, empty_threshold, yolo_model,
          detection_history, alert_cooldown, frame_count, ret, alert_log, alone,
          system, app>>

\* what a call on a detector leaves alone
programs == <<system, app>>

----------------------------------------------------------------------------
(* Bounds of the model *)

\* accepted analyze calls per behaviour of Spec (the full interface)
MaxCalls == 2
\* accepted analyze calls per behaviour of SpecAlert (valid regions only)
MaxCallsAlert == 4
\* calls past the history capacity that SpecHist makes on its section
MaxOverfill == 2
\* frames between two changes of the picture in SpecScene
ScenePeriod == 4
\* the latest timestamp of SpecScene, in half cooldown times
MaxTickScene == 3
\* timestamps of Spec are k half-cooldowns, k in 0..MaxTick
MaxTick == 2
\* timestamps of SpecAlert are k half-cooldowns, k in 0..MaxTickAlert
MaxTickAlert == 5
\* accepted analyze calls that build the section's history in SpecConf
MaxCallsConf == 3
\* accepted analyze calls per behaviour of SpecReset
MaxCallsReset == 3
\* timestamps of SpecReset are k half-cooldowns, k in 0..MaxTickReset
MaxTickReset == 3

----------------------------------------------------------------------------
(* Helpers *)

\* a program that has not been constructed
NotConstructed == [constructed |-> FALSE]

ONE == 10^6

Min(a, b) == IF a <= b THEN a ELSE b

Max(a, b) == IF a >= b THEN a ELSE b

Abs(a) == IF a >= 0 THEN a ELSE 0 - a

Last(s) == s[Len(s)]

\* python's s[-n:]
Tail_n(s, n) == IF Len(s) <= n THEN s ELSE SubSeq(s, Len(s) - n + 1, Len(s))

RECURSIVE SumSeq(_)
SumSeq(s) == IF s = <<>> THEN 0 ELSE s[1] + SumSeq(Tail(s))

\* sum(1 for x in s if x) over a list of booleans
CountTrue(s) == Cardinality({i \in DOMAIN s : s[i]})

Classes == {"EnhancedShelfDetector", "YOLOShelfDetector", "ImprovedYOLODetector",
            "YOLOv8mShelfDetector", "EnhancedVideoShelfDetector",
            "AdvancedShelfDetector", "SimpleShelfDetector"}

Shelves == {"A", "B"}

\* the section names of SpecReset: the empty string is a name too
ResetShelves == {"", "A"}

----------------------------------------------------------------------------
(* Per-class constants of __init__ and of the size check *)

history_length(c) ==
    CASE c = "EnhancedShelfDetector" -> 8
      [] c = "YOLOShelfDetector" -> 10
      [] c = "ImprovedYOLODetector" -> 10
      [] c = "YOLOv8mShelfDetector" -> 15
      [] c = "EnhancedVideoShelfDetector" -> 8
      [] c = "AdvancedShelfDetector" -> 10
      [] c = "SimpleShelfDetector" -> 5

\* twentieths of a second
cooldown_time(c) ==
    CASE c = "EnhancedShelfDetector" -> 40
      [] c = "YOLOShelfDetector" -> 30
      [] c = "ImprovedYOLODetector" -> 30
      [] c = "YOLOv8mShelfDetector" -> 20
      [] c = "EnhancedVideoShelfDetector" -> 16
      [] c = "AdvancedShelfDetector" -> 100
      [] c = "SimpleShelfDetector" -> 60

\* roi.shape[0] < m or roi.shape[1] < m is rejected; AdvancedShelfDetector
\* has no such check
min_region_size(c) ==
    CASE c = "EnhancedShelfDetector" -> 30
      [] c = "YOLOShelfDetector" -> 50
      [] c = "ImprovedYOLODetector" -> 50
      [] c = "YOLOv8mShelfDetector" -> 50
      [] c = "EnhancedVideoShelfDetector" -> 30
      [] c = "AdvancedShelfDetector" -> 0
      [] c = "SimpleShelfDetector" -> 20

\* max(0.1, min(hi, new_sensitivity)), tenths
sensitivity_max(c) ==
    IF c \in {"YOLOv8mShelfDetector", "EnhancedVideoShelfDetector", "SimpleShelfDetector"}
    THEN 9 ELSE 10

----------------------------------------------------------------------------
(* EnhancedShelfDetector._calculate_enhanced_confidence.  analysis holds    *)
(* the five method scores of _perform_enhanced_analysis, hundredths.        *)

\* _calculate_enhanced_confidence that reports the adjusted fullness as the
\* confidence of an empty frame too
Enhanced_calculate_enhanced_confidence_fullness_side(analysis, sens) ==
    LET fullness_confidence ==
            25 * analysis.color_score + 30 * analysis.edge_score
            + 20 * analysis.texture_score + 15 * analysis.brightness_score
            + 10 * analysis.contour_score
        adjusted_confidence == fullness_confidence * (20 - sens) * 10
    IN  [is_empty |-> adjusted_confidence < 500000,
         empty_confidence |-> adjusted_confidence,
         fullness_score |-> -1,
         yolo_detection |-> -1]

Enhanced_calculate_enhanced_confidence(analysis, sens) ==
    LET fullness_confidence ==          \* ten-thousandths
            25 * analysis.color_score + 30 * analysis.edge_score
            + 20 * analysis.texture_score + 15 * analysis.brightness_score
            + 10 * analysis.contour_score
        adjusted_confidence == fullness_confidence * (20 - sens) * 10
        is_empty == adjusted_confidence < 500000
    IN  [is_empty |-> is_empty,
         empty_confidence |-> IF is_empty THEN ONE - adjusted_confidence
                                          ELSE adjusted_confidence,
         fullness_score |-> -1,
         yolo_detection |-> -1]

----------------------------------------------------------------------------
(* YOLOShelfDetector._calculate_yolo_confidence.  analysis holds the raw    *)
(* scores of the five stages, hundredths.                                   *)

YOLO_calculate_yolo_confidence(analysis, sens) ==
    LET fullness_score ==               \* ten-thousandths
            40 * Min(100, analysis.density_score)
            + 20 * Min(100, analysis.richness_score \div 2)
            + 20 * Min(100, analysis.combined_texture_score * 2)
            + 10 * Min(100, analysis.distribution_score \div 25)
            + 10 * Min(100, analysis.structure_score \div 5)
        adjusted_fullness == fullness_score * (150 - 5 * sens)
        empty_threshold_c == 300000
        is_empty == adjusted_fullness < empty_threshold_c
        empty_confidence ==
            IF is_empty
            \* (0.3 - adjusted) / 0.3 and (adjusted - 0.3) / 0.7, fractions reduced
            THEN ((empty_threshold_c - adjusted_fullness) * 10) \div 3
            ELSE ((adjusted_fullness - empty_threshold_c) * 10) \div 7
    IN  [is_empty |-> is_empty,
         empty_confidence |-> Max(0, Min(ONE, empty_confidence)),
         fullness_score |-> adjusted_fullness,
         yolo_detection |-> -1]

----------------------------------------------------------------------------
(* ImprovedYOLODetector._calculate_improved_confidence.  analysis holds     *)
(* what _perform_improved_analysis returns: booleans, scores in hundredths, *)
(* total_variance as is, edge_density in thousandths.                       *)

\* _calculate_improved_confidence whose sensitivity adjustment lowers the
\* confidence of an empty frame (1.0 - sensitivity * 0.3)
Improved_calculate_improved_confidence_sensitivity_lowers(analysis, sens) ==
    LET is_uniform == analysis.is_uniform
        has_few_objects == analysis.meaningful_object_count <= 1
        low_color_diversity == ~analysis.has_diverse_colors
        low_texture == ~analysis.has_texture
        minimal_structure == ~analysis.has_structure
        shelf_background_detected ==
            analysis.total_variance < 150 /\ analysis.meaningful_object_count = 0
        lighting_uniformity == analysis.uniformity_score > 75
        minimal_edges == analysis.edge_density < 25
        primary_empty_indicators ==
            CountTrue(<<is_uniform, has_few_objects, low_color_diversity,
                        low_texture, minimal_structure>>)
        supermarket_indicators_count ==
            CountTrue(<<shelf_background_detected, lighting_uniformity, minimal_edges>>)
        total_empty_indicators == primary_empty_indicators + supermarket_indicators_count
        \* the four branches set is_empty to True, True, (total >= 3), False
        is_empty ==
            IF total_empty_indicators >= 5 THEN TRUE
            ELSE IF total_empty_indicators >= 3 THEN TRUE
            ELSE IF total_empty_indicators >= 2 THEN total_empty_indicators >= 3
            ELSE FALSE
        fullness_score ==
            (40 * analysis.object_density + 30 * analysis.color_richness
             + 20 * analysis.texture_score + 2 * analysis.structure_score) * 85
        banded ==
            IF total_empty_indicators >= 5
            THEN 850000 + Min(150000, (total_empty_indicators - 5) * 30000)
            ELSE IF total_empty_indicators >= 3
            THEN 650000 + (total_empty_indicators - 3) * 100000
            ELSE IF total_empty_indicators >= 2
            THEN 450000 + (total_empty_indicators - 2) * 100000
            ELSE Min(ONE, fullness_score)
        empty_confidence ==
            IF is_empty
            THEN Min(ONE, (banded * (100 - 3 * sens)) \div 100)
            ELSE Max(0, (banded * (20 - sens)) \div 10)
    IN  [is_empty |-> is_empty,
         empty_confidence |-> empty_confidence,
         fullness_score |-> IF is_empty THEN ONE - empty_confidence ELSE empty_confidence,
         yolo_detection |-> -1,
         empty_indicators |-> total_empty_indicators,
         primary_indicators |-> primary_empty_indicators,
         supermarket_indicators |-> supermarket_indicators_count,
         yolo_indicators |-> 0,
         band_confidence |-> banded]

Improved_calculate_improved_confidence(analysis, sens) ==
    LET is_uniform == analysis.is_uniform
        has_few_objects == analysis.meaningful_object_count <= 1
        low_color_diversity == ~analysis.has_diverse_colors
        low_texture == ~analysis.has_texture
        minimal_structure == ~analysis.has_structure
        shelf_background_detected ==
            analysis.total_variance < 150 /\ analysis.meaningful_object_count = 0
        lighting_uniformity == analysis.uniformity_score > 75
        minimal_edges == analysis.edge_density < 25
        primary_empty_indicators ==
            CountTrue(<<is_uniform, has_few_objects, low_color_diversity,
                        low_texture, minimal_structure>>)
        supermarket_indicators_count ==
            CountTrue(<<shelf_background_detected, lighting_uniformity, minimal_edges>>)
        total_empty_indicators == primary_empty_indicators + supermarket_indicators_count
        \* the four branches set is_empty to True, True, (total >= 3), False
        is_empty ==
            IF total_empty_indicators >= 5 THEN TRUE
            ELSE IF total_empty_indicators >= 3 THEN TRUE
            ELSE IF total_empty_indicators >= 2 THEN total_empty_indicators >= 3
            ELSE FALSE
        fullness_score ==
            (40 * analysis.object_density + 30 * analysis.color_richness
             + 20 * analysis.texture_score + 2 * analysis.structure_score) * 85
        banded ==
            IF total_empty_indicators >= 5
            THEN 850000 + Min(150000, (total_empty_indicators - 5) * 30000)
            ELSE IF total_empty_indicators >= 3
            THEN 650000 + (total_empty_indicators - 3) * 100000
            ELSE IF total_empty_indicators >= 2
            THEN 450000 + (total_empty_indicators - 2) * 100000
            ELSE Min(ONE, fullness_score)
        empty_confidence ==
            IF is_empty
            THEN Min(ONE, (banded * (100 + 3 * sens)) \div 100)
            ELSE Max(0, (banded * (20 - sens)) \div 10)
    IN  [is_empty |-> is_empty,
         empty_confidence |-> empty_confidence,
         fullness_score |-> IF is_empty THEN ONE - empty_confidence ELSE empty_confidence,
         yolo_detection |-> -1,
         empty_indicators |-> total_empty_indicators,
         primary_indicators |-> primary_empty_indicators,
         supermarket_indicators |-> supermarket_indicators_count,
         yolo_indicators |-> 0,
         band_confidence |-> banded]

----------------------------------------------------------------------------
(* YOLOv8mShelfDetector.  roi holds the object detector's evidence for the  *)
(* region (yolo_product_count, yolo_coverage in hundredths) next to the     *)
(* heuristic extractors' results.  model is self.yolo_model: "None" (not    *)
(* loaded), "loaded", or "failing" (loaded, but inference throws).          *)

\* _perform_yolo_detection whose except branch reports yolo_available True
YOLOv8m_perform_yolo_detection_error_available(features, model) ==
    IF model = "None"
    THEN [product_count |-> 0, coverage_ratio |-> 0, yolo_available |-> FALSE]
    ELSE IF model = "failing"
    THEN [product_count |-> 0, coverage_ratio |-> 0, yolo_available |-> TRUE]
    ELSE [product_count |-> features.yolo_product_count,
          coverage_ratio |-> Min(100, features.yolo_coverage),
          yolo_available |-> TRUE]

YOLOv8m_perform_yolo_detection(features, model) ==
    IF model = "None"
    THEN [product_count |-> 0, coverage_ratio |-> 0, yolo_available |-> FALSE]
    ELSE IF model = "failing"
    THEN [product_count |-> 0, coverage_ratio |-> 0, yolo_available |-> FALSE]
    ELSE [product_count |-> features.yolo_product_count,
          coverage_ratio |-> Min(100, features.yolo_coverage),
          yolo_available |-> TRUE]

\* object_density of _detect_enhanced_objects, hundredths
YOLOv8m_detect_enhanced_objects(features, yolo) ==
    LET traditional_density == features.traditional_density
        yolo_density == Min(100, yolo.product_count * 30 + (yolo.coverage_ratio * 15) \div 10)
    IN  IF yolo.yolo_available
        THEN (traditional_density * 4 + yolo_density * 6) \div 10
        ELSE traditional_density

YOLOv8m_calculate_yolo_enhanced_confidence(features, yolo, sens) ==
    LET object_density == YOLOv8m_detect_enhanced_objects(features, yolo)
        is_uniform == features.is_uniform
        has_few_objects == features.meaningful_object_count <= 1
        low_color_diversity == ~features.has_diverse_colors
        low_texture == ~features.has_texture
        minimal_structure == ~features.has_structure
        yolo_no_products == yolo.product_count = 0
        yolo_low_coverage == yolo.coverage_ratio < 12
        yolo_available == yolo.yolo_available
        shelf_background_detected ==
            features.total_variance < 120 /\ features.meaningful_object_count = 0
        lighting_uniformity == features.uniformity_score > 70
        minimal_edges == features.edge_density < 22
        primary_count ==
            CountTrue(<<is_uniform, has_few_objects, low_color_diversity,
                        low_texture, minimal_structure>>)
        yolo_count ==
            IF yolo_available THEN CountTrue(<<yolo_no_products, yolo_low_coverage>>) ELSE 0
        supermarket_count ==
            CountTrue(<<shelf_background_detected, lighting_uniformity, minimal_edges>>)
        total_empty_indicators == primary_count + supermarket_count
        \* the likely-has-products branch, YOLO available
        yolo_fullness == yolo.coverage_ratio * 25000
        yolo_product_boost == Min(400000, yolo.product_count * 120000)
        traditional_fullness_y ==
            object_density * 3500 + features.color_richness * 2500
            + features.texture_score * 2000 + features.structure_score * 300
        fullness_score_y ==
            Min(ONE, (traditional_fullness_y * 4) \div 10 + (yolo_fullness * 5) \div 10
                     + yolo_product_boost)
        \* the likely-has-products branch, YOLO not available
        traditional_fullness_t ==
            object_density * 4000 + features.color_richness * 3000
            + features.texture_score * 2000 + features.structure_score * 200
        banded ==
            IF yolo_available
            THEN IF yolo_count >= 2 /\ primary_count >= 2
                 THEN [e |-> TRUE, c |-> 900000 + Min(100000, primary_count * 20000)]
                 ELSE IF yolo_count >= 2 /\ primary_count >= 1
                 THEN [e |-> TRUE, c |-> 820000 + primary_count * 50000 + supermarket_count * 30000]
                 ELSE IF yolo_count >= 1 /\ primary_count >= 2
                 THEN [e |-> TRUE, c |-> 720000 + primary_count * 50000 + supermarket_count * 40000]
                 ELSE IF primary_count >= 3 /\ supermarket_count >= 1
                 THEN [e |-> TRUE, c |-> 680000 + (primary_count - 3) * 50000]
                 ELSE IF yolo_count >= 1 /\ primary_count >= 1
                 THEN [e |-> TRUE, c |-> 620000 + primary_count * 40000 + supermarket_count * 30000]
                 ELSE IF primary_count >= 3
                 THEN [e |-> TRUE, c |-> 580000 + (primary_count - 3) * 40000 + supermarket_count * 30000]
                 ELSE [e |-> FALSE, c |-> Max(80000, ONE - (fullness_score_y * 11) \div 10)]
            ELSE IF total_empty_indicators >= 4
                 THEN [e |-> TRUE, c |-> 820000 + Min(150000, (total_empty_indicators - 4) * 40000)]
                 ELSE IF total_empty_indicators >= 3
                 THEN [e |-> TRUE, c |-> 680000 + (total_empty_indicators - 3) * 100000]
                 ELSE IF total_empty_indicators >= 2
                 THEN [e |-> TRUE, c |-> 550000 + (total_empty_indicators - 2) * 100000]
                 ELSE [e |-> FALSE, c |-> Max(100000, ONE - (traditional_fullness_t * 105) \div 100)]
        is_empty == banded.e
        empty_confidence ==
            IF is_empty
            THEN Min(ONE, (banded.c * (100 + 2 * sens)) \div 100 + 120000)
            ELSE Max(0, (banded.c * (20 - sens)) \div 10)
    IN  [is_empty |-> is_empty,
         empty_confidence |-> empty_confidence,
         fullness_score |-> IF is_empty THEN ONE - empty_confidence ELSE empty_confidence,
         yolo_detection |-> IF yolo_available THEN yolo.coverage_ratio * 10000 ELSE 0,
         empty_indicators |-> total_empty_indicators,
         primary_indicators |-> primary_count,
         supermarket_indicators |-> supermarket_count,
         yolo_indicators |-> yolo_count,
         band_confidence |-> banded.c]

----------------------------------------------------------------------------
(* EnhancedVideoShelfDetector._calculate_enhanced_confidence.  history is   *)
(* the section's history before the current record is appended.             *)

EnhancedVideo_calculate_enhanced_confidence(analysis, history, sens) ==
    LET is_uniform == analysis.is_uniform
        has_few_objects == analysis.meaningful_object_count <= 1
        low_color_diversity == ~analysis.has_diverse_colors
        low_texture == ~analysis.has_texture
        minimal_structure == ~analysis.has_structure
        threshold_suggests_empty == analysis.suggests_empty
        spatial_suggests_empty == analysis.spatial_suggests_empty
        dominant_color == analysis.dominant_color_ratio > 40
        very_low_edge_density == analysis.edge_density < 15
        empty_indicator_count ==
            CountTrue(<<is_uniform, has_few_objects, low_color_diversity, low_texture,
                        minimal_structure, threshold_suggests_empty,
                        spatial_suggests_empty, dominant_color, very_low_edge_density>>)
        recent == Tail_n(history, 3)
        recent_empty_count == Cardinality({i \in DOMAIN recent : recent[i].is_empty})
        \* (recent_empty_count / 3) * 0.3
        temporal_boost == IF Len(history) >= 3 THEN recent_empty_count * 100000 ELSE 0
        fullness_score ==
            ((40 * analysis.object_density + 30 * analysis.color_richness
              + 20 * analysis.texture_score + analysis.structure_score) * 75)
        banded ==
            IF empty_indicator_count >= 6
            THEN [e |-> TRUE, c |-> 900000 + Min(100000, (empty_indicator_count - 6) * 20000)]
            ELSE IF empty_indicator_count >= 4
            THEN [e |-> TRUE, c |-> 750000 + (empty_indicator_count - 4) * 50000]
            ELSE IF empty_indicator_count >= 3
            THEN [e |-> TRUE, c |-> 550000 + (empty_indicator_count - 3) * 100000]
            ELSE IF empty_indicator_count >= 2
            THEN [e |-> empty_indicator_count >= 3 \/ temporal_boost > 200000,
                  c |-> 350000 + (empty_indicator_count - 2) * 100000]
            ELSE [e |-> FALSE, c |-> Max(50000, ONE - fullness_score)]
        is_empty == banded.e
        boosted == IF is_empty THEN Min(ONE, banded.c + 250000 + temporal_boost) ELSE banded.c
        empty_confidence ==
            IF is_empty
            THEN Min(ONE, (boosted * (200 + 3 * sens)) \div 200)
            ELSE Max(0, (boosted * (20 - sens)) \div 10)
    IN  [is_empty |-> is_empty,
         empty_confidence |-> empty_confidence,
         fullness_score |-> IF is_empty THEN ONE - empty_confidence ELSE empty_confidence,
         yolo_detection |-> -1,
         empty_indicators |-> empty_indicator_count,
         primary_indicators |-> empty_indicator_count,
         supermarket_indicators |-> 0,
         yolo_indicators |-> 0,
         band_confidence |-> banded.c]

----------------------------------------------------------------------------
(* AdvancedShelfDetector: the weighted combination of analyze_shelf_region, *)
(* _apply_sensitivity and _get_stable_result.  The five method scores are   *)
(* hundredths; a high score speaks for an empty shelf.                      *)

Advanced_combined_score(analysis) ==
    (25 * analysis.variance_score + 25 * analysis.edge_score + 20 * analysis.color_score
     + 15 * analysis.texture_score + 15 * analysis.contour_score) * 100

Advanced_apply_sensitivity(score, sens) ==
    LET sensitivity_factor == (sens - 5) * 40000
        adjusted_score == score + sensitivity_factor
    IN  Max(0, Min(ONE, adjusted_score))

\* np.linspace(0.0, 1.0, n), scaled by n-1: the oldest record has no weight
Advanced_weight_from_zero(n, i) == IF n = 1 THEN 1 ELSE i - 1

\* np.linspace(0.5, 1.0, n), scaled by 2(n-1) so that the weights are integers
Advanced_weight(n, i) == IF n = 1 THEN 1 ELSE (n - 1) + (i - 1)

Advanced_get_stable_result(history) ==
    LET n == Len(history)
        total == SumSeq([i \in 1..n |-> Advanced_weight(n, i)])
        votes == SumSeq([i \in 1..n |-> IF history[i].is_empty
                                         THEN Advanced_weight(n, i) ELSE 0])
        confs == SumSeq([i \in 1..n |-> history[i].confidence * Advanced_weight(n, i)])
    IN  IF n = 0
        THEN [is_empty |-> FALSE, confidence |-> 0]
        ELSE [is_empty |-> 2 * votes > total, confidence |-> confs \div total]

----------------------------------------------------------------------------
(* SimpleShelfDetector: the scoring of analyze_shelf_region.  edge_density  *)
(* is in hundredths, pixel_variance and hist_spread as they are.            *)

Simple_classify(analysis, sens) ==
    LET edge_score == IF analysis.edge_density > 5000 THEN 1 ELSE 0
        variance_score == IF analysis.pixel_variance > 100 THEN 1 ELSE 0
        hist_score == IF analysis.hist_spread > 50 THEN 1 ELSE 0
        score_sum == edge_score + variance_score + hist_score
        \* fullness_score = score_sum / 3 < 0.5 + (sensitivity - 0.5) * 0.5
        is_empty == 20 * score_sum < 15 + 3 * sens
        \* abs(fullness_score - 0.5) * 2
        confidence == (Abs(2 * score_sum - 3) * ONE) \div 3
    IN  [is_empty |-> is_empty,
         empty_confidence |-> confidence,
         fullness_score |-> -1,
         yolo_detection |-> -1]

----------------------------------------------------------------------------
(* Stability and the alert decision.  last is the section's entry of        *)
(* alert_cooldown when the decision is taken; where the decision is TRUE    *)
(* the code sets that entry to the call's timestamp.                        *)

\* history[-5:] states equal to the newest one
consistent_detections(flags) ==
    LET recent_states == Tail_n(flags, 5)
    IN  Cardinality({i \in DOMAIN recent_states : recent_states[i] = Last(recent_states)})

Enhanced_calculate_stability(history) ==
    IF Len(history) < 3
    THEN Len(history)
    ELSE Min(5, consistent_detections([i \in DOMAIN history |-> history[i].is_empty]))

\* _should_alert with the cooldown check left out
Enhanced_should_alert_without_cooldown(last, timestamp, is_empty, confidence, stability) ==
    IF ~is_empty THEN FALSE
    ELSE IF confidence < 600000 THEN FALSE
    ELSE IF stability < 3 THEN FALSE
    ELSE TRUE

\* _should_alert with the cooldown compared by <= instead of <
Enhanced_should_alert_strict_cooldown(last, timestamp, is_empty, confidence, stability) ==
    IF ~is_empty THEN FALSE
    ELSE IF confidence < 600000 THEN FALSE
    ELSE IF stability < 3 THEN FALSE
    ELSE IF timestamp - last <= cooldown_time("EnhancedShelfDetector") THEN FALSE
    ELSE TRUE

Enhanced_should_alert(last, timestamp, is_empty, confidence, stability) ==
    IF ~is_empty THEN FALSE
    ELSE IF confidence < 600000 THEN FALSE
    ELSE IF stability < 3 THEN FALSE
    ELSE IF timestamp - last < cooldown_time("EnhancedShelfDetector") THEN FALSE
    ELSE TRUE

\* 'NONE' exactly when the frame is not classified empty
determine_alert_level(confidence, is_empty) ==
    IF ~is_empty THEN "NONE"
    ELSE IF confidence >= 850000 THEN "CRITICAL"
    ELSE IF confidence >= 700000 THEN "HIGH"
    ELSE IF confidence >= 550000 THEN "MEDIUM"
    ELSE "LOW"

\* consistency_score of YOLOShelfDetector and of ImprovedYOLODetector
calculate_stability_metrics(history) ==
    IF Len(history) < 3
    THEN Len(history)
    ELSE Min(5, consistent_detections([i \in DOMAIN history |-> history[i].is_empty]))

YOLO_should_trigger_alert(last, timestamp, confidence_data, consistency_score, alert_level) ==
    IF ~confidence_data.is_empty \/ alert_level = "NONE" THEN FALSE
    ELSE IF confidence_data.empty_confidence < 500000 THEN FALSE
    ELSE IF consistency_score < 2 THEN FALSE
    ELSE IF timestamp - last < cooldown_time("YOLOShelfDetector") THEN FALSE
    ELSE TRUE

Improved_should_trigger_alert(last, timestamp, confidence_data, consistency_score, alert_level) ==
    IF ~confidence_data.is_empty \/ alert_level = "NONE" THEN FALSE
    ELSE IF confidence_data.empty_confidence < 500000 THEN FALSE
    ELSE IF consistency_score < 2 THEN FALSE
    ELSE IF timestamp - last < cooldown_time("ImprovedYOLODetector") THEN FALSE
    ELSE TRUE

\* _should_trigger_alert with the alert threshold at 0.75, as it was before
\* it was reduced to 0.65
YOLOv8m_should_trigger_alert_threshold_075(last, confidence_data, timestamp) ==
    IF ~confidence_data.is_empty THEN FALSE
    ELSE IF timestamp - last < cooldown_time("YOLOv8mShelfDetector") THEN FALSE
    ELSE IF confidence_data.empty_confidence >= 750000 THEN TRUE
    ELSE FALSE

YOLOv8m_should_trigger_alert(last, confidence_data, timestamp) ==
    IF ~confidence_data.is_empty THEN FALSE
    ELSE IF timestamp - last < cooldown_time("YOLOv8mShelfDetector") THEN FALSE
    ELSE IF confidence_data.empty_confidence >= 650000 THEN TRUE
    ELSE FALSE

EnhancedVideo_should_trigger_alert(last, confidence_data, timestamp) ==
    IF ~confidence_data.is_empty THEN FALSE
    ELSE IF timestamp - last < cooldown_time("EnhancedVideoShelfDetector") THEN FALSE
    ELSE IF confidence_data.empty_confidence >= 550000 THEN TRUE
    ELSE FALSE

\* should_alert of AdvancedShelfDetector.analyze_shelf_region
Advanced_should_alert(last, timestamp, stable_result) ==
    stable_result.is_empty
    /\ timestamp - last > cooldown_time("AdvancedShelfDetector")

\* stability of SimpleShelfDetector.analyze_shelf_region; history holds booleans
Simple_stability(recent_detections) ==
    LET empty_count == CountTrue(recent_detections)
    IN  Len(recent_detections) - Abs(Len(recent_detections) - 2 * empty_count)

\* should_alert of SimpleShelfDetector.analyze_shelf_region
Simple_should_alert(last, timestamp, is_empty, recent_detections) ==
    IF is_empty /\ Len(recent_detections) >= 3
    THEN IF CountTrue(recent_detections) >= 2
         THEN timestamp - last > cooldown_time("SimpleShelfDetector")
         ELSE FALSE
    ELSE FALSE

----------------------------------------------------------------------------
(* The feature extractors (OpenCV, the object detector) are the             *)
(* environment.  A region's pixel content is one of three pictures: a bare  *)
(* shelf, a sparsely filled one, a stocked one; each extractor's result on  *)
(* a picture is a fixed value within the range the extractor can return.    *)

Contents == {"bare", "sparse", "stocked"}

Enhanced_perform_enhanced_analysis(content) ==
    CASE content = "bare" ->
           [color_score |-> 0, edge_score |-> 0, texture_score |-> 0,
            brightness_score |-> 0, contour_score |-> 0]
      [] content = "sparse" ->
           [color_score |-> 35, edge_score |-> 35, texture_score |-> 35,
            brightness_score |-> 35, contour_score |-> 35]
      [] content = "stocked" ->
           [color_score |-> 100, edge_score |-> 100, texture_score |-> 100,
            brightness_score |-> 100, contour_score |-> 100]

YOLO_perform_yolo_analysis(content) ==
    CASE content = "bare" ->
           [density_score |-> 0, richness_score |-> 0, combined_texture_score |-> 0,
            distribution_score |-> 0, structure_score |-> 0]
      [] content = "sparse" ->
           [density_score |-> 70, richness_score |-> 0, combined_texture_score |-> 0,
            distribution_score |-> 0, structure_score |-> 0]
      [] content = "stocked" ->
           [density_score |-> 100, richness_score |-> 200, combined_texture_score |-> 50,
            distribution_score |-> 2500, structure_score |-> 500]

\* The extractors of ImprovedYOLODetector on a region with the measurements
\* m: uniformity_score and coverage_ratio in hundredths, edge_density in
\* thousandths (the Canny edge density of _detect_meaningful_objects and of
\* _analyze_structure is one number), the others as they are.
Improved_analysis_results(m) ==
    [is_uniform |-> m.uniformity_score > 80,
     uniformity_score |-> m.uniformity_score,
     total_variance |-> m.total_variance,
     meaningful_object_count |-> m.meaningful_object_count,
     object_density |-> Min(100, m.meaningful_object_count * 20 + m.coverage_ratio * 2),
     edge_density |-> m.edge_density,
     has_diverse_colors |-> m.total_color_variance > 1200,
     color_richness |-> Min(100, (m.total_color_variance * 100) \div 1200),
     has_texture |-> m.texture_strength > 12,
     texture_score |-> Min(100, (m.texture_strength * 100) \div 12),
     has_structure |-> m.edge_density > 25,
     structure_score |-> m.edge_density + 5 * m.corner_count]

Improved_perform_improved_analysis(content) ==
    Improved_analysis_results(
        CASE content = "bare" ->
               [uniformity_score |-> 90, total_variance |-> 50,
                meaningful_object_count |-> 0, coverage_ratio |-> 0, edge_density |-> 5,
                total_color_variance |-> 100, texture_strength |-> 2, corner_count |-> 0]
          [] content = "sparse" ->
               [uniformity_score |-> 50, total_variance |-> 500,
                meaningful_object_count |-> 1, coverage_ratio |-> 5, edge_density |-> 50,
                total_color_variance |-> 3000, texture_strength |-> 6, corner_count |-> 10]
          [] content = "stocked" ->
               [uniformity_score |-> 20, total_variance |-> 2000,
                meaningful_object_count |-> 5, coverage_ratio |-> 40, edge_density |-> 120,
                total_color_variance |-> 5000, texture_strength |-> 40, corner_count |-> 40])

\* The extractors of YOLOv8mShelfDetector next to the object detector's
\* evidence: color_richness and texture_score in hundredths, structure_count
\* is corner_count + 2 * line_count, structure_score in hundredths of it.
YOLOv8m_analysis_results(m) ==
    [is_uniform |-> m.uniformity_score > 75,
     uniformity_score |-> m.uniformity_score,
     total_variance |-> m.total_variance,
     meaningful_object_count |-> m.meaningful_object_count,
     traditional_density |-> Min(100, m.meaningful_object_count * 20 + m.coverage_ratio * 2),
     edge_density |-> m.edge_density,
     has_diverse_colors |-> m.total_color_variance > 600,
     color_richness |-> Min(100, m.color_richness),
     has_texture |-> m.texture_score > 6,
     texture_score |-> m.texture_score,
     has_structure |-> m.structure_count > 20,
     structure_score |-> m.structure_count * 100,
     yolo_product_count |-> m.yolo_product_count,
     yolo_coverage |-> m.yolo_coverage]

YOLOv8m_perform_yolo_enhanced_analysis(content) ==
    YOLOv8m_analysis_results(
        CASE content = "bare" ->
               [uniformity_score |-> 90, total_variance |-> 50,
                meaningful_object_count |-> 0, coverage_ratio |-> 0, edge_density |-> 5,
                total_color_variance |-> 100, color_richness |-> 5, texture_score |-> 2,
                structure_count |-> 0, yolo_product_count |-> 0, yolo_coverage |-> 0]
          [] content = "sparse" ->
               [uniformity_score |-> 50, total_variance |-> 500,
                meaningful_object_count |-> 1, coverage_ratio |-> 5, edge_density |-> 50,
                total_color_variance |-> 3000, color_richness |-> 20, texture_score |-> 10,
                structure_count |-> 25, yolo_product_count |-> 1, yolo_coverage |-> 10]
          [] content = "stocked" ->
               [uniformity_score |-> 20, total_variance |-> 2000,
                meaningful_object_count |-> 5, coverage_ratio |-> 40, edge_density |-> 120,
                total_color_variance |-> 5000, color_richness |-> 100, texture_score |-> 100,
                structure_count |-> 60, yolo_product_count |-> 3, yolo_coverage |-> 40])

\* The extractors of EnhancedVideoShelfDetector: dominant_color_ratio in
\* hundredths, structure_count is corner_count + 1.5 * line_count.
EnhancedVideo_analysis_results(m) ==
    [is_uniform |-> m.uniformity_score > 65,
     dominant_color_ratio |-> m.dominant_color_ratio,
     meaningful_object_count |-> m.meaningful_object_count,
     object_density |-> Min(100, m.meaningful_object_count * 15
                                 + (m.coverage_ratio * 15) \div 10),
     edge_density |-> m.edge_density,
     has_diverse_colors |-> m.total_color_variance > 600,
     color_richness |-> Min(100, m.color_richness),
     has_texture |-> m.texture_score > 6,
     texture_score |-> m.texture_score,
     has_structure |-> m.structure_count > 15,
     structure_score |-> m.structure_count * 100,
     suggests_empty |-> m.suggests_empty,
     spatial_suggests_empty |-> m.spatial_suggests_empty]

EnhancedVideo_perform_enhanced_video_analysis(content) ==
    EnhancedVideo_analysis_results(
        CASE content = "bare" ->
               [uniformity_score |-> 90, dominant_color_ratio |-> 80,
                meaningful_object_count |-> 0, coverage_ratio |-> 0, edge_density |-> 5,
                total_color_variance |-> 100, color_richness |-> 5, texture_score |-> 2,
                structure_count |-> 0, suggests_empty |-> TRUE,
                spatial_suggests_empty |-> TRUE]
          [] content = "sparse" ->
               [uniformity_score |-> 50, dominant_color_ratio |-> 30,
                meaningful_object_count |-> 1, coverage_ratio |-> 5, edge_density |-> 50,
                total_color_variance |-> 3000, color_richness |-> 20, texture_score |-> 5,
                structure_count |-> 20, suggests_empty |-> FALSE,
                spatial_suggests_empty |-> FALSE]
          [] content = "stocked" ->
               [uniformity_score |-> 20, dominant_color_ratio |-> 10,
                meaningful_object_count |-> 5, coverage_ratio |-> 40, edge_density |-> 120,
                total_color_variance |-> 5000, color_richness |-> 100, texture_score |-> 100,
                structure_count |-> 50, suggests_empty |-> FALSE,
                spatial_suggests_empty |-> FALSE])

\* the five _analyze_* methods of AdvancedShelfDetector
Advanced_analyze_methods(content) ==
    CASE content = "bare" ->
           [variance_score |-> 100, edge_score |-> 100, color_score |-> 100,
            texture_score |-> 100, contour_score |-> 100]
      [] content = "sparse" ->
           [variance_score |-> 20, edge_score |-> 20, color_score |-> 20,
            texture_score |-> 20, contour_score |-> 20]
      [] content = "stocked" ->
           [variance_score |-> 0, edge_score |-> 0, color_score |-> 0,
            texture_score |-> 0, contour_score |-> 0]

\* edge density, pixel variance and histogram spread of SimpleShelfDetector
Simple_measure(content) ==
    CASE content = "bare" ->
           [edge_density |-> 0, pixel_variance |-> 10, hist_spread |-> 10]
      [] content = "sparse" ->
           [edge_density |-> 5, pixel_variance |-> 500, hist_spread |-> 60]
      [] content = "stocked" ->
           [edge_density |-> 30, pixel_variance |-> 2000, hist_spread |-> 80]

----------------------------------------------------------------------------
(* Regions.  A region is None or an array of the given shape; channels = 1  *)
(* stands for a two-dimensional (grayscale) array.                          *)

Region(h, w, ch, content) ==
    [is_none |-> FALSE, height |-> h, width |-> w, channels |-> ch, content |-> content]

NoneRegion ==
    [is_none |-> TRUE, height |-> 0, width |-> 0, channels |-> 0, content |-> "bare"]

\* colour regions large enough for every class
ValidRegions == {Region(64, 64, 3, content) : content \in Contents}

\* the regions a monitored section shows: a bare or a sparsely filled shelf
MonitoredRegions == {Region(64, 64, 3, content) : content \in {"bare", "sparse"}}

\* None, an empty array, regions below a minimum size, an array with two
\* channels, a grayscale array
OddRegions ==
    {NoneRegion, Region(0, 64, 3, "bare"), Region(10, 64, 3, "bare"),
     Region(64, 40, 3, "stocked"), Region(64, 64, 2, "stocked"),
     Region(64, 64, 1, "bare")}

Regions == ValidRegions \cup OddRegions

\* roi is None or roi.size == 0
NoImageData(roi) == roi.is_none \/ roi.height * roi.width * roi.channels = 0

\* roi.shape[0] < m or roi.shape[1] < m
TooSmall(c, roi) == roi.height < min_region_size(c) \/ roi.width < min_region_size(c)

\* cv2.cvtColor(roi, COLOR_BGR2GRAY / COLOR_BGR2HSV) throws cv2.error on a
\* three-dimensional array that has not 3 or 4 channels; AdvancedShelfDetector
\* converts BGR2HSV whatever the shape, so it throws on a grayscale array too.
\* No caller-side handler exists in any analyze_shelf_region.
Raises(c, roi) ==
    roi.channels = 2 \/ (c = "AdvancedShelfDetector" /\ roi.channels = 1)

\* values of the constructor's sensitivity argument, tenths
CtorSensitivities == {7}

\* arguments of update_sensitivity, tenths
SensitivityArgs == {0, 3, 12}

\* the positions the sensitivity slider is moved to while monitoring, tenths
SliderPositions == {3}

\* timestamps: multiples of half the class's cooldown
Timestamps(c, ticks) == {k * (cooldown_time(c) \div 2) : k \in 0..ticks}

\* d[key] = value on a python dict
Put(d, key, value) ==
    [k \in DOMAIN d \cup {key} |-> IF k = key THEN value ELSE d[k]]

----------------------------------------------------------------------------
(* What analyze_shelf_region returns.  Fields a class does not report are   *)
(* -1.                                                                      *)

\* _create_result / _create_error_result as the rejecting branches call them
create_error_result(c) ==
    CASE c = "EnhancedShelfDetector" ->
           [is_empty |-> TRUE, confidence |-> ONE, fullness_score |-> -1,
            should_alert |-> FALSE, stability |-> 0, yolo_detection |-> -1]
      [] c \in {"YOLOShelfDetector", "ImprovedYOLODetector"} ->
           [is_empty |-> TRUE, confidence |-> ONE, fullness_score |-> 0,
            should_alert |-> FALSE, stability |-> 0, yolo_detection |-> -1]
      [] c \in {"YOLOv8mShelfDetector", "EnhancedVideoShelfDetector"} ->
           [is_empty |-> FALSE, confidence |-> 0, fullness_score |-> 0,
            should_alert |-> FALSE, stability |-> -1, yolo_detection |-> -1]
      [] c = "AdvancedShelfDetector" ->
           \* should_alert = is_empty and confidence > self.confidence_threshold
           [is_empty |-> TRUE, confidence |-> ONE, fullness_score |-> -1,
            should_alert |-> (ONE > 800000), stability |-> 0, yolo_detection |-> -1]
      [] c = "SimpleShelfDetector" ->
           \* should_alert = is_empty
           [is_empty |-> TRUE, confidence |-> ONE, fullness_score |-> -1,
            should_alert |-> TRUE, stability |-> 0, yolo_detection |-> -1]

\* the fresh classification of the frame: confidence_data of the class
classify(c, content, shelf_history, sens, model, threshold) ==
    CASE c = "EnhancedShelfDetector" ->
           Enhanced_calculate_enhanced_confidence(
               Enhanced_perform_enhanced_analysis(content), sens)
      [] c = "YOLOShelfDetector" ->
           YOLO_calculate_yolo_confidence(YOLO_perform_yolo_analysis(content), sens)
      [] c = "ImprovedYOLODetector" ->
           Improved_calculate_improved_confidence(
               Improved_perform_improved_analysis(content), sens)
      [] c = "YOLOv8mShelfDetector" ->
           LET features == YOLOv8m_perform_yolo_enhanced_analysis(content)
           IN  YOLOv8m_calculate_yolo_enhanced_confidence(
                   features, YOLOv8m_perform_yolo_detection(features, model), sens)
      [] c = "EnhancedVideoShelfDetector" ->
           EnhancedVideo_calculate_enhanced_confidence(
               EnhancedVideo_perform_enhanced_video_analysis(content), shelf_history, sens)
      [] c = "AdvancedShelfDetector" ->
           LET adjusted_score ==
                   Advanced_apply_sensitivity(
                       Advanced_combined_score(Advanced_analyze_methods(content)), sens)
           IN  [is_empty |-> adjusted_score > threshold,
                empty_confidence |-> adjusted_score,
                fullness_score |-> -1, yolo_detection |-> -1]
      [] c = "SimpleShelfDetector" ->
           Simple_classify(Simple_measure(content), sens)

\* the record appended to the section's history: is_empty everywhere,
\* confidence in AdvancedShelfDetector (read back by _get_stable_result),
\* 'frame_number': self.frame_count in the four classes that store it;
\* SimpleShelfDetector appends the boolean itself
detection_record(c, confidence_data, frame_number) ==
    IF c = "SimpleShelfDetector"
    THEN confidence_data.is_empty
    ELSE IF c = "AdvancedShelfDetector"
    THEN [is_empty |-> confidence_data.is_empty,
          confidence |-> confidence_data.empty_confidence]
    ELSE IF c = "EnhancedShelfDetector"
    THEN [is_empty |-> confidence_data.is_empty]
    ELSE [is_empty |-> confidence_data.is_empty, frame_number |-> frame_number]

\* the append without the pop(0)
append_record_without_pop(c, shelf_history, record) ==
    Append(shelf_history, record)

\* append, then pop() when the list is longer than history_length: the
\* newest record goes instead of the oldest
append_record_pop_newest(c, shelf_history, record) ==
    LET appended == Append(shelf_history, record)
    IN  IF Len(appended) > history_length(c)
        THEN SubSeq(appended, 1, Len(appended) - 1) ELSE appended

\* append, then pop(0) when the list is longer than history_length
append_record(c, shelf_history, record) ==
    LET appended == Append(shelf_history, record)
    IN  IF Len(appended) > history_length(c) THEN Tail(appended) ELSE appended

\* the result of an accepted call, given the fresh classification and the
\* section's history with the new record in it
analyze_result(c, confidence_data, history, last, timestamp) ==
    CASE c = "EnhancedShelfDetector" ->
           LET stability == Enhanced_calculate_stability(history)
           IN  [is_empty |-> confidence_data.is_empty,
                confidence |-> confidence_data.empty_confidence,
                fullness_score |-> -1,
                should_alert |-> Enhanced_should_alert(last, timestamp,
                                    confidence_data.is_empty,
                                    confidence_data.empty_confidence, stability),
                stability |-> stability, yolo_detection |-> -1]
      [] c = "YOLOShelfDetector" ->
           LET consistency_score == calculate_stability_metrics(history)
               alert_level == determine_alert_level(confidence_data.empty_confidence,
                                                    confidence_data.is_empty)
           IN  [is_empty |-> confidence_data.is_empty,
                confidence |-> confidence_data.empty_confidence,
                fullness_score |-> confidence_data.fullness_score,
                should_alert |-> YOLO_should_trigger_alert(last, timestamp,
                                    confidence_data, consistency_score, alert_level),
                stability |-> consistency_score, yolo_detection |-> -1]
      [] c = "ImprovedYOLODetector" ->
           LET consistency_score == calculate_stability_metrics(history)
               alert_level == determine_alert_level(confidence_data.empty_confidence,
                                                    confidence_data.is_empty)
           IN  [is_empty |-> confidence_data.is_empty,
                confidence |-> confidence_data.empty_confidence,
                fullness_score |-> confidence_data.fullness_score,
                should_alert |-> Improved_should_trigger_alert(last, timestamp,
                                    confidence_data, consistency_score, alert_level),
                stability |-> consistency_score, yolo_detection |-> -1]
      [] c = "YOLOv8mShelfDetector" ->
           [is_empty |-> confidence_data.is_empty,
            confidence |-> confidence_data.empty_confidence,
            fullness_score |-> confidence_data.fullness_score,
            should_alert |-> YOLOv8m_should_trigger_alert(last, confidence_data, timestamp),
            stability |-> -1, yolo_detection |-> confidence_data.yolo_detection]
      [] c = "EnhancedVideoShelfDetector" ->
           [is_empty |-> confidence_data.is_empty,
            confidence |-> confidence_data.empty_confidence,
            fullness_score |-> confidence_data.fullness_score,
            should_alert |-> EnhancedVideo_should_trigger_alert(last, confidence_data,
                                                                timestamp),
            stability |-> -1, yolo_detection |-> -1]
      [] c = "AdvancedShelfDetector" ->
           LET stable_result == Advanced_get_stable_result(history)
           IN  [is_empty |-> stable_result.is_empty,
                confidence |-> stable_result.confidence,
                fullness_score |-> -1,
                should_alert |-> Advanced_should_alert(last, timestamp, stable_result),
                stability |-> Len(history), yolo_detection |-> -1]
      [] c = "SimpleShelfDetector" ->
           [is_empty |-> confidence_data.is_empty,
            confidence |-> confidence_data.empty_confidence,
            fullness_score |-> -1,
            should_alert |-> Simple_should_alert(last, timestamp,
                                confidence_data.is_empty, history),
            stability |-> Simple_stability(history), yolo_detection |-> -1]

\* ret after a call of analyze_shelf_region: outcome is "rejected" (a
\* validation branch returned), "raised" (an exception reached the caller)
\* or "analyzed"
Returned(roi, shelf_name, timestamp, outcome, result) ==
    [op |-> "analyze_shelf_region", outcome |-> outcome,
     roi |-> roi, shelf_name |-> shelf_name, timestamp |-> timestamp,
     is_empty |-> result.is_empty, confidence |-> result.confidence,
     fullness_score |-> result.fullness_score, should_alert |-> result.should_alert,
     stability |-> result.stability, yolo_detection |-> result.yolo_detection]

NoResult ==
    [is_empty |-> FALSE, confidence |-> -1, fullness_score |-> -1,
     should_alert |-> FALSE, stability |-> -1, yolo_detection |-> -1]

\* analyze_shelf_region(roi, "A", timestamp) on a detector whose state for
\* the section is d: known (the section has an entry), history, last (its
\* alert_cooldown entry), frame_count; result is what the call returns
section_call(c, d, roi, timestamp, sens, model, threshold) ==
    LET shelf_history == IF d.known THEN d.history ELSE << >>
        last == IF d.known THEN d.last ELSE 0
        confidence_data == classify(c, roi.content, shelf_history, sens, model, threshold)
        history == append_record(c, shelf_history,
                                 detection_record(c, confidence_data, d.frame_count + 1))
        result == analyze_result(c, confidence_data, history, last, timestamp)
    IN  IF NoImageData(roi) \/ TooSmall(c, roi)
        THEN [known |-> d.known, history |-> d.history, last |-> d.last,
              frame_count |-> d.frame_count, result |-> create_error_result(c)]
        ELSE IF Raises(c, roi)
        THEN [known |-> TRUE, history |-> shelf_history, last |-> last,
              frame_count |-> d.frame_count + 1, result |-> NoResult]
        ELSE [known |-> TRUE, history |-> history,
              last |-> IF result.should_alert THEN timestamp ELSE last,
              frame_count |-> d.frame_count + 1, result |-> result]

\* what the detector keeps of a call: the section's entries and frame_count
section_state(called) ==
    [known |-> called.known, history |-> called.history, last |-> called.last,
     frame_count |-> called.frame_count]

----------------------------------------------------------------------------
(* The detector *)

\* __init__(sensitivity) of the class
Init ==
    /\ cls \in Classes
    /\ supplied_sensitivity \in CtorSensitivities
    /\ sensitivity = supplied_sensitivity
    /\ empty_threshold =
           IF cls = "AdvancedShelfDetector" THEN ONE - sensitivity * 100000 ELSE -1
    /\ yolo_model \in IF cls = "YOLOv8mShelfDetector"
                      THEN {"None", "loaded", "failing"} ELSE {"None"}
    /\ detection_history = << >>
    /\ alert_cooldown = << >>
    /\ frame_count = 0
    /\ ret = [op |-> "none", outcome |-> "none", roi |-> NoneRegion,
              shelf_name |-> "", timestamp |-> -1,
              is_empty |-> FALSE, confidence |-> -1, fullness_score |-> -1,
              should_alert |-> FALSE, stability |-> -1, yolo_detection |-> -1]
    /\ alert_log = [s \in Shelves \cup ResetShelves |-> << >>]
    /\ alone = [known |-> FALSE, history |-> << >>, last |-> 0, frame_count |-> 0]
    /\ system = NotConstructed
    /\ app = NotConstructed

\* analyze_shelf_region that counts the frame and creates the section's
\* entries before it validates the region
analyze_shelf_region_validating_late(roi, shelf_name, timestamp) ==
    LET known == shelf_name \in DOMAIN detection_history
        shelf_history == IF known THEN detection_history[shelf_name] ELSE << >>
        last == IF known THEN alert_cooldown[shelf_name] ELSE 0
        confidence_data ==
            classify(cls, roi.content, shelf_history, sensitivity, yolo_model,
                     empty_threshold)
        history == append_record(cls, shelf_history,
                                 detection_record(cls, confidence_data, frame_count + 1))
        result == analyze_result(cls, confidence_data, history, last, timestamp)
    IN  /\ alone' = IF shelf_name = "A"
                    THEN section_state(section_call(cls, alone, roi, timestamp,
                                                    sensitivity, yolo_model,
                                                    empty_threshold))
                    ELSE alone
        /\ IF NoImageData(roi) \/ TooSmall(cls, roi)
            THEN /\ frame_count' = frame_count + 1
                 /\ detection_history' = Put(detection_history, shelf_name, shelf_history)
                 /\ alert_cooldown' = Put(alert_cooldown, shelf_name, last)
                 /\ ret' = Returned(roi, shelf_name, timestamp, "rejected",
                                    create_error_result(cls))
                 /\ UNCHANGED <<cls, sensitivity, supplied_sensitivity, empty_threshold,
                                yolo_model, alert_log>>
            ELSE IF Raises(cls, roi)
            THEN /\ frame_count' = frame_count + 1
                 /\ detection_history' = Put(detection_history, shelf_name, shelf_history)
                 /\ alert_cooldown' = Put(alert_cooldown, shelf_name, last)
                 /\ ret' = Returned(roi, shelf_name, timestamp, "raised", NoResult)
                 /\ UNCHANGED <<cls, sensitivity, supplied_sensitivity, empty_threshold,
                                yolo_model, alert_log>>
            ELSE /\ frame_count' = frame_count + 1
                 /\ detection_history' = Put(detection_history, shelf_name, history)
                 /\ alert_cooldown' =
                        Put(alert_cooldown, shelf_name,
                            IF result.should_alert THEN timestamp ELSE last)
                 /\ ret' = Returned(roi, shelf_name, timestamp, "analyzed", result)
                 /\ alert_log' =
                        IF result.should_alert
                        THEN [alert_log EXCEPT ![shelf_name] = Append(@, timestamp)]
                        ELSE alert_log
                 /\ UNCHANGED <<cls, sensitivity, supplied_sensitivity, empty_threshold,
                                yolo_model>>

analyze_shelf_region(roi, shelf_name, timestamp) ==
    LET known == shelf_name \in DOMAIN detection_history
        shelf_history == IF known THEN detection_history[shelf_name] ELSE << >>
        last == IF known THEN alert_cooldown[shelf_name] ELSE 0
        confidence_data ==
            classify(cls, roi.content, shelf_history, sensitivity, yolo_model,
                     empty_threshold)
        history == append_record(cls, shelf_history,
                                 detection_record(cls, confidence_data, frame_count + 1))
        result == analyze_result(cls, confidence_data, history, last, timestamp)
    IN  /\ alone' = IF shelf_name = "A"
                    THEN section_state(section_call(cls, alone, roi, timestamp,
                                                    sensitivity, yolo_model,
                                                    empty_threshold))
                    ELSE alone
        /\ IF NoImageData(roi) \/ TooSmall(cls, roi)
            THEN /\ ret' = Returned(roi, shelf_name, timestamp, "rejected",
                                    create_error_result(cls))
                 /\ UNCHANGED <<cls, sensitivity, supplied_sensitivity, empty_threshold,
                                yolo_model, detection_history, alert_cooldown,
                                frame_count, alert_log>>
            ELSE IF Raises(cls, roi)
            THEN /\ frame_count' = frame_count + 1
                 /\ detection_history' = Put(detection_history, shelf_name, shelf_history)
                 /\ alert_cooldown' = Put(alert_cooldown, shelf_name, last)
                 /\ ret' = Returned(roi, shelf_name, timestamp, "raised", NoResult)
                 /\ UNCHANGED <<cls, sensitivity, supplied_sensitivity, empty_threshold,
                                yolo_model, alert_log>>
            ELSE /\ frame_count' = frame_count + 1
                 /\ detection_history' = Put(detection_history, shelf_name, history)
                 /\ alert_cooldown' =
                        Put(alert_cooldown, shelf_name,
                            IF result.should_alert THEN timestamp ELSE last)
                 /\ ret' = Returned(roi, shelf_name, timestamp, "analyzed", result)
                 /\ alert_log' =
                        IF result.should_alert
                        THEN [alert_log EXCEPT ![shelf_name] = Append(@, timestamp)]
                        ELSE alert_log
                 /\ UNCHANGED <<cls, sensitivity, supplied_sensitivity, empty_threshold,
                                yolo_model>>

update_sensitivity(new_sensitivity) ==
    /\ supplied_sensitivity' = new_sensitivity
    /\ sensitivity' = Max(1, Min(sensitivity_max(cls), new_sensitivity))
    /\ empty_threshold' =
           IF cls = "AdvancedShelfDetector" THEN ONE - sensitivity' * 100000
           ELSE empty_threshold
    /\ UNCHANGED <<cls, yolo_model, detection_history, alert_cooldown, frame_count,
                   ret, alert_log, alone>>

\* ret after a call that returns nothing
Called(op, shelf_name) ==
    [op |-> op, outcome |-> "none", roi |-> NoneRegion,
     shelf_name |-> shelf_name, timestamp |-> -1,
     is_empty |-> FALSE, confidence |-> -1, fullness_score |-> -1,
     should_alert |-> FALSE, stability |-> -1, yolo_detection |-> -1]

\* `if shelf_name:` of reset_shelf_history: None (the call without an
\* argument, written "None" here) and the empty string are false
Truthy(shelf_name) == shelf_name # "None" /\ shelf_name # ""

\* AdvancedShelfDetector and SimpleShelfDetector only
reset_shelf_history(shelf_name) ==
    /\ cls \in {"AdvancedShelfDetector", "SimpleShelfDetector"}
    /\ detection_history' =
           IF ~Truthy(shelf_name) THEN << >>
           ELSE IF shelf_name \in DOMAIN detection_history
           THEN [detection_history EXCEPT ![shelf_name] = << >>]
           ELSE detection_history
    /\ alert_cooldown' =
           IF ~Truthy(shelf_name) THEN << >>
           ELSE IF shelf_name \in DOMAIN detection_history
           THEN [alert_cooldown EXCEPT ![shelf_name] = 0]
           ELSE alert_cooldown
    /\ ret' = Called("reset_shelf_history", shelf_name)
    /\ alone' = IF shelf_name = "None"
                THEN [alone EXCEPT !.known = FALSE, !.history = << >>, !.last = 0]
                ELSE IF shelf_name = "A" /\ alone.known
                THEN [alone EXCEPT !.history = << >>, !.last = 0]
                ELSE alone
    /\ UNCHANGED <<cls, sensitivity, supplied_sensitivity, empty_threshold,
                   yolo_model, frame_count, alert_log>>

\* the section's history as a method reads it, empty when
\* the section has no entry
HistoryOf(shelf_name) ==
    IF shelf_name \in DOMAIN detection_history THEN detection_history[shelf_name]
    ELSE << >>

\* ret after a statistics query: the call and the dictionary it returns
Queried(op, shelf_name, summary) ==
    [op |-> op, shelf_name |-> shelf_name, summary |-> summary]

\* get_shelf_stats that fetches the history with setdefault(shelf_name, [])
get_shelf_stats_setdefault(shelf_name) ==
    LET history == HistoryOf(shelf_name)
        empty_count == Cardinality({i \in DOMAIN history : history[i]})
    IN  /\ cls = "SimpleShelfDetector"
        /\ detection_history' = Put(detection_history, shelf_name, history)
        /\ ret' = Queried("get_shelf_stats", shelf_name,
                          [history_length |-> Len(history),
                           empty_count |-> empty_count,
                           empty_percentage |->
                               IF history # << >>
                               THEN (empty_count * 100) \div Len(history) ELSE 0,
                           last_alert |->
                               IF shelf_name \in DOMAIN alert_cooldown
                               THEN alert_cooldown[shelf_name] ELSE 0])
        /\ UNCHANGED <<cls, sensitivity, supplied_sensitivity, empty_threshold,
                       yolo_model, alert_cooldown, frame_count, alert_log, alone>>

\* SimpleShelfDetector.get_shelf_stats; percentages are whole numbers
get_shelf_stats(shelf_name) ==
    LET history == HistoryOf(shelf_name)
        empty_count == Cardinality({i \in DOMAIN history : history[i]})
    IN  /\ cls = "SimpleShelfDetector"
        /\ ret' = Queried("get_shelf_stats", shelf_name,
                          IF shelf_name \notin DOMAIN detection_history
                          THEN [history_length |-> 0, empty_percentage |-> 0]
                          ELSE [history_length |-> Len(history),
                                empty_count |-> empty_count,
                                empty_percentage |->
                                    IF history # << >>
                                    THEN (empty_count * 100) \div Len(history) ELSE 0,
                                last_alert |->
                                    IF shelf_name \in DOMAIN alert_cooldown
                                    THEN alert_cooldown[shelf_name] ELSE 0])
        /\ UNCHANGED <<cls, sensitivity, supplied_sensitivity, empty_threshold,
                       yolo_model, detection_history, alert_cooldown, frame_count,
                       alert_log, alone>>

\* AdvancedShelfDetector.get_shelf_statistics; {} is the empty function,
\* stability_score is in hundredths, last_detection (the newest record's
\* timestamp) is not among the fields the records keep here
get_shelf_statistics(shelf_name) ==
    LET history == HistoryOf(shelf_name)
        empty_count == Cardinality({i \in DOMAIN history : history[i].is_empty})
    IN  /\ cls = "AdvancedShelfDetector"
        /\ ret' = Queried("get_shelf_statistics", shelf_name,
                          IF shelf_name \notin DOMAIN detection_history
                          THEN << >>
                          ELSE IF history = << >>
                          THEN << >>
                          ELSE [total_detections |-> Len(history),
                                empty_detections |-> empty_count,
                                empty_percentage |-> (empty_count * 100) \div Len(history),
                                average_confidence |->
                                    SumSeq([i \in DOMAIN history |-> history[i].confidence])
                                        \div Len(history),
                                stability_score |->
                                    (Len(history) * 100) \div history_length(cls)])
        /\ UNCHANGED <<cls, sensitivity, supplied_sensitivity, empty_threshold,
                       yolo_model, detection_history, alert_cooldown, frame_count,
                       alert_log, alone>>

\* YOLOShelfDetector.get_detection_summary; of the newest record's fields
\* is_empty and frame_number are the ones the records keep here, and the
\* trend is computed by _calculate_stability_metrics, which only reads
get_detection_summary(shelf_name) ==
    LET history == HistoryOf(shelf_name)
    IN  /\ cls = "YOLOShelfDetector"
        /\ ret' = Queried("get_detection_summary", shelf_name,
                          IF shelf_name \notin DOMAIN detection_history
                          THEN [status |-> "No detection history"]
                          ELSE IF history = << >>
                          THEN [status |-> "No recent detection"]
                          ELSE [is_empty |-> Last(history).is_empty,
                                frame_number |-> Last(history).frame_number,
                                detection_count |-> Len(history)])
        /\ UNCHANGED <<cls, sensitivity, supplied_sensitivity, empty_threshold,
                       yolo_model, detection_history, alert_cooldown, frame_count,
                       alert_log, alone>>

----------------------------------------------------------------------------
(* The full interface: any region, any section, any timestamp *)

AnalyzeAny ==
    \E roi \in Regions, shelf_name \in Shelves, timestamp \in Timestamps(cls, MaxTick) :
        /\ frame_count < MaxCalls
        /\ analyze_shelf_region(roi, shelf_name, timestamp)
        /\ UNCHANGED programs

UpdateSensitivity ==
    \E new_sensitivity \in SensitivityArgs :
        /\ update_sensitivity(new_sensitivity)
        /\ UNCHANGED programs

ResetShelfHistory ==
    \E shelf_name \in Shelves \cup {"None"} :
        /\ reset_shelf_history(shelf_name)
        /\ UNCHANGED programs

Next == AnalyzeAny \/ UpdateSensitivity \/ ResetShelfHistory

Spec == Init /\ [][Next]_vars

(* Monitoring: regions that pass validation, sections interleaved,          *)
(* timestamps in any order, the sensitivity slider moved in between         *)

AnalyzeValid ==
    \E roi \in MonitoredRegions, shelf_name \in Shelves,
       timestamp \in Timestamps(cls, MaxTickAlert) :
        /\ frame_count < MaxCallsAlert
        /\ analyze_shelf_region(roi, shelf_name, timestamp)
        /\ UNCHANGED programs

MoveSlider ==
    \E new_sensitivity \in SliderPositions :
        /\ update_sensitivity(new_sensitivity)
        /\ UNCHANGED programs

NextAlert == AnalyzeValid \/ MoveSlider

SpecAlert == Init /\ [][NextAlert]_vars

(* A section that is watched for a long time: the same picture, frame after *)
(* frame, past the capacity of its history                                  *)

AnalyzeSteady ==
    \E roi \in ValidRegions, timestamp \in Timestamps(cls, 1) :
        /\ ret.op = "none" \/ roi = ret.roi
        /\ frame_count < history_length(cls) + MaxOverfill
        /\ analyze_shelf_region(roi, "A", timestamp)
        /\ UNCHANGED programs

NextHist == AnalyzeSteady

SpecHist == Init /\ [][NextHist]_vars

(* A camera whose picture changes now and then: the picture of section A   *)
(* may be replaced at every ScenePeriod-th frame and is the same in between *)

AnalyzeScene ==
    \E roi \in MonitoredRegions \cup {Region(64, 64, 3, "stocked")},
       timestamp \in Timestamps(cls, MaxTickScene) :
        /\ ret.op = "none" \/ roi = ret.roi \/ frame_count % ScenePeriod = 0
        /\ frame_count < history_length(cls) + MaxOverfill
        /\ analyze_shelf_region(roi, "A", timestamp)
        /\ UNCHANGED programs

NextScene == AnalyzeScene

SpecScene == Init /\ [][NextScene]_vars

(* Resetting: the two classes with reset_shelf_history, sections named ""  *)
(* and "A", resets of either, of a section never analyzed, and of all      *)

AnalyzeNamed ==
    \E roi \in MonitoredRegions, shelf_name \in ResetShelves,
       timestamp \in Timestamps(cls, MaxTickReset) :
        /\ frame_count < MaxCallsReset
        /\ analyze_shelf_region(roi, shelf_name, timestamp)
        /\ UNCHANGED programs

ResetNamed ==
    \E shelf_name \in ResetShelves \cup {"B", "None"} :
        /\ reset_shelf_history(shelf_name)
        /\ UNCHANGED programs

InitReset == Init /\ cls \in {"AdvancedShelfDetector", "SimpleShelfDetector"}

NextReset == AnalyzeNamed \/ ResetNamed

SpecReset == InitReset /\ [][NextReset]_vars

(* Statistics: the three classes with a statistics query, asked about     *)
(* sections that were analyzed, reset, or never seen                        *)

GetShelfStats ==
    \E shelf_name \in ResetShelves \cup {"B"} :
        /\ get_shelf_stats(shelf_name)
        /\ UNCHANGED programs

GetShelfStatistics ==
    \E shelf_name \in ResetShelves \cup {"B"} :
        /\ get_shelf_statistics(shelf_name)
        /\ UNCHANGED programs

GetDetectionSummary ==
    \E shelf_name \in ResetShelves \cup {"B"} :
        /\ get_detection_summary(shelf_name)
        /\ UNCHANGED programs

InitStats ==
    Init /\ cls \in {"AdvancedShelfDetector", "SimpleShelfDetector", "YOLOShelfDetector"}

NextStats ==
    \/ AnalyzeNamed
    \/ ResetNamed
    \/ GetShelfStats
    \/ GetShelfStatistics
    \/ GetDetectionSummary

SpecStats == InitStats /\ [][NextStats]_vars

(* The confidence calculation on its own: the frames a region can give,    *)
(* as measurements around every threshold of the extractors, classified    *)
(* against the history that earlier calls have left for the section        *)

\* the classes with a _calculate_*_confidence method
ConfidenceClasses == Classes \ {"AdvancedShelfDetector", "SimpleShelfDetector"}

\* the five method scores of EnhancedShelfDetector, hundredths
Enhanced_analyses ==
    [color_score : {0, 35, 100}, edge_score : {0, 35, 100}, texture_score : {0, 35, 100},
     brightness_score : {0, 35, 100}, contour_score : {0, 35, 100}]

\* the five stage scores of YOLOShelfDetector, hundredths
YOLO_analyses ==
    [density_score : {0, 30, 70, 100}, richness_score : {0, 100, 200},
     combined_texture_score : {0, 25, 50}, distribution_score : {0, 2500},
     structure_score : {0, 500}]

Improved_analyses ==
    {Improved_analysis_results(
         [uniformity_score |-> u, total_variance |-> v, meaningful_object_count |-> n,
          coverage_ratio |-> 10 * n, edge_density |-> e, total_color_variance |-> c,
          texture_strength |-> t, corner_count |-> k]) :
       u \in {50, 78, 90}, v \in {50, 500}, n \in {0, 1, 3}, e \in {5, 25, 60},
       c \in {200, 3000}, t \in {3, 30}, k \in {0, 40}}

\* what the object detector reports for a region: product count and
\* coverage in hundredths
YOLO_evidence == {<<0, 0>>, <<1, 5>>, <<1, 30>>, <<3, 40>>}

YOLOv8m_analyses ==
    {YOLOv8m_analysis_results(
         [uniformity_score |-> u, total_variance |-> v, meaningful_object_count |-> n,
          coverage_ratio |-> 10 * n, edge_density |-> e, total_color_variance |-> c,
          color_richness |-> c \div 50, texture_score |-> t, structure_count |-> k,
          yolo_product_count |-> y[1], yolo_coverage |-> y[2]]) :
       u \in {50, 72, 90}, v \in {50, 500}, n \in {0, 1, 3}, e \in {5, 60},
       c \in {200, 3000}, t \in {3, 50}, k \in {5, 40}, y \in YOLO_evidence}

EnhancedVideo_analyses ==
    {EnhancedVideo_analysis_results(
         [uniformity_score |-> u, dominant_color_ratio |-> d,
          meaningful_object_count |-> n, coverage_ratio |-> 10 * n, edge_density |-> e,
          total_color_variance |-> c, color_richness |-> c \div 50, texture_score |-> t,
          structure_count |-> k, suggests_empty |-> a, spatial_suggests_empty |-> b]) :
       u \in {50, 90}, d \in {30, 80}, n \in {0, 1, 3}, e \in {5, 60},
       c \in {200, 3000}, t \in {3, 50}, k \in {5, 40}, a \in BOOLEAN, b \in BOOLEAN}

\* the analysis results a frame can give in class c
FrameAnalyses(c) ==
    CASE c = "EnhancedShelfDetector" -> Enhanced_analyses
      [] c = "YOLOShelfDetector" -> YOLO_analyses
      [] c = "ImprovedYOLODetector" -> Improved_analyses
      [] c = "YOLOv8mShelfDetector" -> YOLOv8m_analyses
      [] c = "EnhancedVideoShelfDetector" -> EnhancedVideo_analyses

\* confidence_data = self._calculate_..._confidence(analysis_results) of class
\* c, with the section's history as it is before the frame's record
calculate_confidence(c, analysis, shelf_history, sens, model) ==
    CASE c = "EnhancedShelfDetector" ->
           Enhanced_calculate_enhanced_confidence(analysis, sens)
      [] c = "YOLOShelfDetector" ->
           YOLO_calculate_yolo_confidence(analysis, sens)
      [] c = "ImprovedYOLODetector" ->
           Improved_calculate_improved_confidence(analysis, sens)
      [] c = "YOLOv8mShelfDetector" ->
           YOLOv8m_calculate_yolo_enhanced_confidence(
               analysis, YOLOv8m_perform_yolo_detection(analysis, model), sens)
      [] c = "EnhancedVideoShelfDetector" ->
           EnhancedVideo_calculate_enhanced_confidence(analysis, shelf_history, sens)

\* one frame's analysis results put through the confidence calculation; it
\* leaves the detector as it is, so one calculation after each call shows
\* every result
CalculateConfidence ==
    \E analysis \in FrameAnalyses(cls) :
        /\ ret.op # "calculate_confidence"
        /\ ret' = [op |-> "calculate_confidence", shelf_name |-> "A",
                   analysis |-> analysis,
                   confidence_data |->
                       calculate_confidence(cls, analysis, HistoryOf("A"),
                                            sensitivity, yolo_model)]
        /\ UNCHANGED <<cls, sensitivity, supplied_sensitivity, empty_threshold,
                       yolo_model, detection_history, alert_cooldown, frame_count,
                       alert_log, alone>>
        /\ UNCHANGED programs

\* the calls that leave the section's history: bare and stocked frames
AnalyzeBefore ==
    \E content \in {"bare", "stocked"} :
        /\ frame_count < MaxCallsConf
        /\ analyze_shelf_region(Region(64, 64, 3, content), "A", 0)
        /\ UNCHANGED programs

InitConf == Init /\ cls \in ConfidenceClasses

NextConf == AnalyzeBefore \/ CalculateConfidence

SpecConf == InitConf /\ [][NextConf]_vars

----------------------------------------------------------------------------
(* Properties *)

\* the last call was analyze_shelf_region and went past input validation
\* and through the analysis
Analyzed == ret.op = "analyze_shelf_region" /\ ret.outcome = "analyzed"

\* is_empty of a history record
record_is_empty(c, record) == IF c = "SimpleShelfDetector" THEN record ELSE record.is_empty

\* the fresh classification of the frame of the last analyzed call: the
\* newest record of its section
FreshIsEmpty == record_is_empty(cls, Last(detection_history[ret.shelf_name]))

\* C1: in every class and for every section, any two calls on validated
\* regions that returned should_alert=True for that section have timestamps
\* at least cooldown_time apart, whatever the order of the timestamps and
\* however the calls are interleaved with other sections and with
\* update_sensitivity.
C1_CooldownInvariant ==
    \A s \in Shelves :
        \A i, j \in DOMAIN alert_log[s] :
            i # j => Abs(alert_log[s][i] - alert_log[s][j]) >= cooldown_time(cls)

\* C1: a section has alerted twice while the other section was analyzed too
\* and the sensitivity was changed in between.
C1_TwoAlertsInterleaved ==
    /\ \E s \in Shelves : Len(alert_log[s]) >= 2
    /\ DOMAIN detection_history = Shelves
    /\ sensitivity # 7

\* C2: in every class a call whose frame is freshly classified not empty
\* returns should_alert=False.
C2_FreshNotEmptyNeverAlerts ==
    (Analyzed /\ ~FreshIsEmpty) => ~ret.should_alert

\* the capacities the history bound is stated with
StatedCapacity(c) ==
    CASE c \in {"EnhancedShelfDetector", "EnhancedVideoShelfDetector"} -> 8
      [] c \in {"YOLOShelfDetector", "ImprovedYOLODetector", "AdvancedShelfDetector"} -> 10
      [] c = "YOLOv8mShelfDetector" -> 15
      [] c = "SimpleShelfDetector" -> 5

\* C3: in every reachable state and for every section the retained history
\* is no longer than the class's history_length (8, 10, 15 or 5), however
\* many calls were made.
C3_HistoryBound ==
    \A s \in DOMAIN detection_history :
        Len(detection_history[s]) <= StatedCapacity(cls)

\* C3: more calls than the capacity were made on a section of the class
\* with the longest history, and the history is full.
C3_HistoryFullAfterOverflow ==
    /\ cls = "YOLOv8mShelfDetector"
    /\ frame_count > history_length(cls)
    /\ Len(detection_history["A"]) = history_length(cls)

\* the smallest minimum size of any class (SimpleShelfDetector's)
SmallestMinimum == 20

\* a side of the region is below the class's minimum size; for the class
\* without a size check, below the smallest minimum of the other classes
BelowMinimum(c, roi) ==
    LET m == Max(min_region_size(c), SmallestMinimum)
    IN  ~roi.is_none /\ (roi.height < m \/ roi.width < m)

\* C4: in every class a call on a region whose height or width is below
\* the minimum size returns is_empty=True and confidence=1.0, whatever the
\* content, the section's history, the sensitivity and the timestamp.
C4_SmallRegionIsEmptyCertain ==
    (ret.op = "analyze_shelf_region" /\ BelowMinimum(cls, ret.roi))
    => (ret.outcome # "raised" /\ ret.is_empty /\ ret.confidence = ONE)

\* C5: analyze_shelf_region never raises to its caller.
C5_AnalyzeNeverRaises ==
    ret.op = "analyze_shelf_region" => ret.outcome # "raised"

\* the number of empty records among the section's most recent (up to 5)
RecentEmptyCount(c, history) ==
    LET recent == Tail_n(history, 5)
    IN  Cardinality({i \in DOMAIN recent : record_is_empty(c, recent[i])})

\* C6: in YOLOv8mShelfDetector and EnhancedVideoShelfDetector a call returns
\* should_alert=True only if at least 2 of the section's most recent (up to
\* 5) history records, the current one included, are classified empty.
C6_AlertsGatedByStability ==
    (/\ cls \in {"YOLOv8mShelfDetector", "EnhancedVideoShelfDetector"}
     /\ Analyzed
     /\ ret.should_alert)
    => RecentEmptyCount(cls, detection_history[ret.shelf_name]) >= 2

\* the section's last alert timestamp: its entry of the cooldown table, 0
\* for a section the detector has not seen
LastAlert(shelf_name) ==
    IF shelf_name \in DOMAIN alert_cooldown THEN alert_cooldown[shelf_name] ELSE 0

\* C7: an accepted call of EnhancedShelfDetector returns should_alert=True
\* if and only if the frame is classified empty, its confidence is at least
\* 0.6, the stability score is at least 3 and the timestamp is at least 2.0
\* after the section's last alert timestamp; when it fires the last alert
\* timestamp becomes the call's timestamp, otherwise it stays as it was.
C7_EnhancedAlertRule ==
    [][(/\ cls = "EnhancedShelfDetector"
        /\ frame_count' = frame_count + 1
        /\ ret'.outcome = "analyzed")
       => /\ ret'.should_alert <=>
                 (/\ ret'.is_empty
                  /\ ret'.confidence >= 600000
                  /\ ret'.stability >= 3
                  /\ ret'.timestamp - LastAlert(ret'.shelf_name) >= 40)
          /\ alert_cooldown'[ret'.shelf_name] =
                 IF ret'.should_alert THEN ret'.timestamp
                 ELSE LastAlert(ret'.shelf_name)]_vars

\* C7: a call of EnhancedShelfDetector has fired and the section's last
\* alert timestamp is the call's timestamp.
C7_EnhancedAlertFired ==
    /\ cls = "EnhancedShelfDetector"
    /\ Analyzed
    /\ ret.should_alert
    /\ ret.stability >= 3
    /\ alert_cooldown[ret.shelf_name] = ret.timestamp

\* the frame is classified empty with confidence and stability above the
\* class's alert gates
AboveAlertGates(c, result, history) ==
    CASE c = "EnhancedShelfDetector" ->
           result.is_empty /\ result.confidence >= 600000 /\ result.stability >= 3
      [] c \in {"YOLOShelfDetector", "ImprovedYOLODetector"} ->
           result.is_empty /\ result.confidence >= 500000 /\ result.stability >= 2
      [] c = "YOLOv8mShelfDetector" ->
           result.is_empty /\ result.confidence >= 650000
      [] c = "EnhancedVideoShelfDetector" ->
           result.is_empty /\ result.confidence >= 550000
      [] c = "AdvancedShelfDetector" ->
           result.is_empty
      [] c = "SimpleShelfDetector" ->
           result.is_empty /\ Len(history) >= 3 /\ CountTrue(history) >= 2

\* C8: in every class, for a section that has alerted at time t, a later
\* call whose frame is classified empty with confidence and stability above
\* the alert gates fires exactly when its timestamp is at or after
\* t + cooldown_time.
C8_AlertsRecurAfterCooldown ==
    [][(/\ frame_count' = frame_count + 1
        /\ ret'.outcome = "analyzed"
        /\ alert_log[ret'.shelf_name] # << >>
        /\ AboveAlertGates(cls, ret', detection_history'[ret'.shelf_name]))
       => (ret'.should_alert <=>
               ret'.timestamp >= Last(alert_log[ret'.shelf_name]) + cooldown_time(cls))]_vars

\* the heuristic indicators: the five primary and the three supermarket ones
HeuristicIndicatorCount(features) ==
    CountTrue(<<features.is_uniform,
                features.meaningful_object_count <= 1,
                ~features.has_diverse_colors,
                ~features.has_texture,
                ~features.has_structure,
                features.total_variance < 120 /\ features.meaningful_object_count = 0,
                features.uniformity_score > 70,
                features.edge_density < 22>>)

\* the confidence of an empty classification that n heuristic indicators
\* alone give, at sensitivity sens
HeuristicEmptyConfidence(n, sens) ==
    LET band == IF n >= 4 THEN 820000 + Min(150000, (n - 4) * 40000)
                ELSE IF n >= 3 THEN 680000 + (n - 3) * 100000
                ELSE 550000 + (n - 2) * 100000
    IN  Min(ONE, (band * (100 + 2 * sens)) \div 100 + 120000)

\* the region with the object detector's evidence erased
NoObjectEvidence(features) ==
    [features EXCEPT !.yolo_product_count = 0, !.yolo_coverage = 0]

C10_ScoresWithinUnitInterval ==
    (ret.op = "analyze_shelf_region" /\ ret.outcome # "raised")
    => /\ sensitivity \in 1..10
       /\ ret.confidence >= 0 /\ ret.confidence <= ONE
       /\ ret.fullness_score # -1 =>
              (ret.fullness_score >= 0 /\ ret.fullness_score <= ONE)

\* C11: in every class the sensitivity in effect is the most recently
\* supplied value (constructor or update_sensitivity argument) clamped to
\* [0.1, 1.0], and it is the one the next analyze call uses.
C11_SensitivityIsClampedArgument ==
    sensitivity = Max(1, Min(10, supplied_sensitivity))

\* the frame of the last confidence calculation, classified at sensitivity s
\* against the same history
AtSensitivity(s) ==
    calculate_confidence(cls, ret.analysis, HistoryOf(ret.shelf_name), s, yolo_model)

\* C12: in the five classes with a confidence calculation, for one frame
\* and one section history and sensitivities s1 <= s2 in [0.1, 1.0]: if the
\* frame is classified empty under both, the confidence at s2 is at least the
\* confidence at s1; if it is classified not empty under both, the
\* confidence at s2 is at most the confidence at s1.
C12_SensitivityMonotone ==
    ret.op = "calculate_confidence" =>
        LET at == [s \in 1..10 |-> AtSensitivity(s)]
        IN  \A s1, s2 \in 1..10 :
                s1 <= s2 =>
                    /\ (at[s1].is_empty /\ at[s2].is_empty)
                           => at[s2].empty_confidence >= at[s1].empty_confidence
                    /\ (~at[s1].is_empty /\ ~at[s2].is_empty)
                           => at[s2].empty_confidence <= at[s1].empty_confidence

\* C12: a frame of YOLOShelfDetector that is not empty at the two lowest
\* sensitivities, with falling confidence, and empty at the two highest,
\* with rising confidence.
C12_FrameOnBothSides ==
    /\ ret.op = "calculate_confidence"
    /\ cls = "YOLOShelfDetector"
    /\ ~AtSensitivity(1).is_empty /\ ~AtSensitivity(2).is_empty
    /\ AtSensitivity(2).empty_confidence < AtSensitivity(1).empty_confidence
    /\ AtSensitivity(9).is_empty /\ AtSensitivity(10).is_empty
    /\ AtSensitivity(10).empty_confidence > AtSensitivity(9).empty_confidence

\* C13: in AdvancedShelfDetector and SimpleShelfDetector
\* reset_shelf_history(name), for any section name string, leaves that
\* section with an empty history and a cleared cooldown and every other
\* section's history and cooldown as they were; reset_shelf_history()
\* removes the state of all sections.
C13_ResetClearsOneSection ==
    [][(ret'.op = "reset_shelf_history" /\ frame_count' = frame_count)
       => LET name == ret'.shelf_name
          IN  IF name = "None"
              THEN detection_history' = << >> /\ alert_cooldown' = << >>
              ELSE /\ name \in DOMAIN detection_history' =>
                          /\ detection_history'[name] = << >>
                          /\ alert_cooldown'[name] = 0
                   /\ \A other \in DOMAIN detection_history \ {name} :
                          /\ other \in DOMAIN detection_history'
                          /\ detection_history'[other] = detection_history[other]
                          /\ alert_cooldown'[other] = alert_cooldown[other]]_vars

\* C14: in every class and for any interleaving of calls, the is_empty,
\* confidence, stability and should_alert returned for section "A", and the
\* section's stored history and cooldown timestamp, are those of a detector
\* to which the calls for the other sections were never made.
C14_SectionsIndependent ==
    [][(ret'.op = "analyze_shelf_region" /\ ret'.shelf_name = "A"
        /\ ret'.outcome = "analyzed" /\ frame_count' = frame_count + 1)
       => LET called == section_call(cls, alone, ret'.roi, ret'.timestamp, sensitivity,
                                     yolo_model, empty_threshold)
          IN  /\ ret'.is_empty = called.result.is_empty
              /\ ret'.confidence = called.result.confidence
              /\ ret'.stability = called.result.stability
              /\ ret'.should_alert = called.result.should_alert
              /\ detection_history'["A"] = called.history
              /\ alert_cooldown'["A"] = called.last]_vars

\* C15: when two calls in a row analyze the same region for a section at the
\* same timestamp and sensitivity, and the section's history was already
\* full after the first of them, the second returns the same is_empty and
\* the same confidence as the first.
C15_StaticInputConverges ==
    [][(/\ Analyzed /\ Analyzed'
        /\ ret'.shelf_name = ret.shelf_name
        /\ ret'.roi = ret.roi /\ ret'.timestamp = ret.timestamp
        /\ Len(detection_history[ret.shelf_name]) = history_length(cls))
       => /\ ret'.is_empty = ret.is_empty
          /\ ret'.confidence = ret.confidence]_vars

\* the records of a history, among its most recent min(5, length), whose
\* is_empty equals that of the most recent record
MatchingRecent(history) ==
    LET n == Len(history)
        first == Max(1, n - 4)
    IN  {i \in first..n : history[i].is_empty = history[n].is_empty}

\* C16: after an accepted call on an EnhancedShelfDetector, YOLOShelfDetector
\* or ImprovedYOLODetector the stability (consistency) score returned is the
\* number of records, among the section's most recent min(5, length) ones,
\* whose is_empty equals that of the most recent record, at every history
\* length.
C16_StabilityCountsMatchingRecords ==
    (/\ Analyzed
     /\ cls \in {"EnhancedShelfDetector", "YOLOShelfDetector", "ImprovedYOLODetector"})
    => ret.stability = Cardinality(MatchingRecent(detection_history[ret.shelf_name]))

\* the detectors that count empty indicators
IndicatorClasses ==
    {"ImprovedYOLODetector", "YOLOv8mShelfDetector", "EnhancedVideoShelfDetector"}

\* the indicator counts of a frame and what the band mapping gives it
BandPoint(confidence_data, model) ==
    [model |-> model,
     is_empty |-> confidence_data.is_empty,
     primary |-> confidence_data.primary_indicators,
     supermarket |-> confidence_data.supermarket_indicators,
     yolo |-> confidence_data.yolo_indicators,
     band |-> confidence_data.band_confidence]

\* the points of every frame of a class, on a section without history
BandPoints ==
    [c \in IndicatorClasses |->
        {BandPoint(calculate_confidence(c, analysis, << >>, 5, model), model) :
           analysis \in FrameAnalyses(c), model \in {"None", "loaded", "failing"}}]

\* every indicator count of p is at least that of q
AtLeastTheCounts(p, q) ==
    /\ p.primary >= q.primary
    /\ p.supermarket >= q.supermarket
    /\ p.yolo >= q.yolo

\* C17: in ImprovedYOLODetector, YOLOv8mShelfDetector (object detector
\* loaded or not) and EnhancedVideoShelfDetector, of two frames that are both
\* classified empty, the one with at least the other's count of every kind
\* of indicator is given at least the other's confidence band (the empty
\* confidence before the sensitivity transform).
C17_BandMonotoneInCounts ==
    (/\ ret.op = "calculate_confidence"
     /\ cls \in IndicatorClasses
     /\ ret.confidence_data.is_empty)
    => LET p == BandPoint(ret.confidence_data, yolo_model)
       IN  \A q \in BandPoints[cls] :
               (q.model = yolo_model /\ q.is_empty)
               => /\ AtLeastTheCounts(p, q) => p.band >= q.band
                  /\ AtLeastTheCounts(q, p) => q.band >= p.band

\* p and q have the same count of every kind of indicator
SameCounts(p, q) ==
    /\ p.primary = q.primary
    /\ p.supermarket = q.supermarket
    /\ p.yolo = q.yolo

\* C18: in ImprovedYOLODetector, YOLOv8mShelfDetector and
\* EnhancedVideoShelfDetector a frame classified at any sensitivity against
\* any section history gets the is_empty of every frame with the same
\* indicator counts classified on a section without history.
C18_CountsDecideIsEmpty ==
    (ret.op = "calculate_confidence" /\ cls \in IndicatorClasses)
    => \A s \in 1..10 :
           LET p == BandPoint(AtSensitivity(s), yolo_model)
           IN  \A q \in BandPoints[cls] :
                   (q.model = yolo_model /\ SameCounts(p, q)) => p.is_empty = q.is_empty

\* the number of primary and of supermarket empty indicators class c has;
\* EnhancedVideoShelfDetector has one list of nine
IndicatorKinds(c) ==
    IF c = "EnhancedVideoShelfDetector"
    THEN [primary |-> 9, supermarket |-> 0]
    ELSE [primary |-> 5, supermarket |-> 3]

\* every empty indicator holds for the classified frame: all heuristic
\* ones, and both object-detector ones where the detector gave evidence
AllIndicatorsHold(confidence_data) ==
    /\ confidence_data.primary_indicators = IndicatorKinds(cls).primary
    /\ confidence_data.supermarket_indicators = IndicatorKinds(cls).supermarket
    /\ (cls = "YOLOv8mShelfDetector" /\ yolo_model = "loaded")
           => confidence_data.yolo_indicators = 2

\* no empty indicator holds for the classified frame
NoIndicatorHolds(confidence_data) ==
    /\ confidence_data.primary_indicators = 0
    /\ confidence_data.supermarket_indicators = 0
    /\ confidence_data.yolo_indicators = 0

\* C19: in ImprovedYOLODetector, YOLOv8mShelfDetector and
\* EnhancedVideoShelfDetector a frame for which every empty indicator holds
\* is classified empty with a confidence above 0.7 at every sensitivity from
\* 0.1 to 1.0, and a frame for which no empty indicator holds is classified
\* not empty.
C19_ClearFramesAreDecided ==
    (ret.op = "calculate_confidence" /\ cls \in IndicatorClasses)
    => \A s \in 1..10 :
           LET confidence_data == AtSensitivity(s)
           IN  /\ AllIndicatorsHold(confidence_data)
                      => /\ confidence_data.is_empty
                         /\ confidence_data.empty_confidence > 700000
               /\ NoIndicatorHolds(confidence_data) => ~confidence_data.is_empty

\* C19: a frame of ImprovedYOLODetector for which all eight indicators hold,
\* classified empty with confidence above 0.7 at the highest sensitivity.
C19_AllIndicatorsFrame ==
    /\ ret.op = "calculate_confidence"
    /\ cls = "ImprovedYOLODetector"
    /\ AllIndicatorsHold(AtSensitivity(10))
    /\ AtSensitivity(10).is_empty
    /\ AtSensitivity(10).empty_confidence > 700000

\* the statistics queries
StatisticsQueries == {"get_shelf_statistics", "get_shelf_stats", "get_detection_summary"}

\* C20: a call of get_shelf_statistics, get_shelf_stats or
\* get_detection_summary leaves every section's history, every cooldown
\* timestamp, frame_count and the sensitivity as they were, and a section
\* name without state before the call has none after it.
C20_StatisticsReadOnly ==
    [][ret'.op \in StatisticsQueries
       => /\ detection_history' = detection_history
          /\ alert_cooldown' = alert_cooldown
          /\ frame_count' = frame_count
          /\ sensitivity' = sensitivity
          /\ DOMAIN detection_history' = DOMAIN detection_history
          /\ DOMAIN alert_cooldown' = DOMAIN alert_cooldown]_vars

\* C20: get_shelf_stats was asked about section B, which has never been
\* analyzed, in a detector that has analyzed section A.
C20_QueriedUnseenSection ==
    /\ ret.op = "get_shelf_stats"
    /\ ret.shelf_name = "B"
    /\ "B" \notin DOMAIN detection_history
    /\ "A" \in DOMAIN detection_history
    /\ detection_history["A"] # << >>

\* C21: an accepted call for a section leaves in its history the records
\* that were there, in their order, followed by the record of this call,
\* without the oldest one when that makes more than history_length; so after
\* k accepted calls since creation or reset the history holds the records
\* of the last min(k, history_length) calls in call order.
C21_OldestEvictedFirst ==
    [][(ret'.op = "analyze_shelf_region" /\ ret'.outcome = "analyzed"
        /\ frame_count' = frame_count + 1)
       => LET before == HistoryOf(ret'.shelf_name)
              after == detection_history'[ret'.shelf_name]
              kept == IF Len(before) < history_length(cls) THEN before ELSE Tail(before)
          IN  /\ Len(after) = Len(kept) + 1
              /\ SubSeq(after, 1, Len(kept)) = kept
              /\ Last(after) =
                     detection_record(cls,
                                      classify(cls, ret'.roi.content, before, sensitivity,
                                               yolo_model, empty_threshold),
                                      frame_count')]_vars

\* C21: a call on a full history of both empty and not empty records has
\* evicted the oldest record.
C21_EvictedFromMixedHistory ==
    /\ Analyzed
    /\ frame_count > history_length(cls)
    /\ Len(detection_history[ret.shelf_name]) = history_length(cls)
    /\ \E i, j \in DOMAIN detection_history[ret.shelf_name] :
           record_is_empty(cls, detection_history[ret.shelf_name][i])
             # record_is_empty(cls, detection_history[ret.shelf_name][j])

\* the last call was analyze_shelf_region and was turned away by input
\* validation
Rejected == ret.op = "analyze_shelf_region" /\ ret.outcome = "rejected"

\* C22: in every class a call rejected by input validation (no region, a
\* region of size zero, a region below the minimum size) returns
\* should_alert=False.
C22_RejectedNeverAlerts == Rejected => ~ret.should_alert

\* C23: a call rejected by input validation leaves every section's history,
\* every cooldown timestamp and frame_count as they were, and a section name
\* without state before the call has none after it.
C23_RejectedLeavesState ==
    [][(ret'.op = "analyze_shelf_region" /\ ret'.outcome = "rejected")
       => /\ detection_history' = detection_history
          /\ alert_cooldown' = alert_cooldown
          /\ frame_count' = frame_count
          /\ ret'.shelf_name \notin DOMAIN detection_history
                 => /\ ret'.shelf_name \notin DOMAIN detection_history'
                    /\ ret'.shelf_name \notin DOMAIN alert_cooldown']_vars

\* C23: a call for section B was rejected in a detector that holds a history
\* for section A and none for B.
C23_RejectedForUnseenSection ==
    /\ Rejected
    /\ ret.shelf_name = "B"
    /\ "B" \notin DOMAIN detection_history
    /\ "A" \in DOMAIN detection_history
    /\ detection_history["A"] # << >>

\* C24: in every class an accepted call for a section that has never fired
\* an alert, whose frame is classified empty with confidence and stability
\* above the alert gates, returns should_alert=True whatever its timestamp.
C24_FirstAlertNotSuppressed ==
    [][(/\ frame_count' = frame_count + 1
        /\ ret'.outcome = "analyzed"
        /\ alert_log[ret'.shelf_name] = << >>
        /\ AboveAlertGates(cls, ret', detection_history'[ret'.shelf_name]))
       => ret'.should_alert]_vars

\* C25: in AdvancedShelfDetector and SimpleShelfDetector any two accepted
\* calls that returned should_alert=True for one section have timestamps at
\* least cooldown_time apart, also when reset_shelf_history was called for
\* the section or for all sections between them.
C25_CooldownAcrossResets ==
    cls \in {"AdvancedShelfDetector", "SimpleShelfDetector"}
    => \A s \in ResetShelves :
           \A i, j \in DOMAIN alert_log[s] :
               i < j => Abs(alert_log[s][j] - alert_log[s][i]) >= cooldown_time(cls)

\* the records of a history that are classified empty
EmptyRecords(history) == {i \in DOMAIN history : history[i].is_empty}

\* C29: in AdvancedShelfDetector, with a full history of 10 records, the
\* reported is_empty is the recency-weighted majority of the retained
\* records (weights linear from 0.5 to 1.0); is_empty=True, hence any alert,
\* needs at least 5 of the 10 records classified empty, and one record that
\* differs from the nine others does not decide the reported state.
C29_WeightedMajority ==
    (Analyzed /\ cls = "AdvancedShelfDetector"
       /\ Len(detection_history[ret.shelf_name]) = 10)
    => LET history == detection_history[ret.shelf_name]
           empty == Cardinality(EmptyRecords(history))
           \* 36 * weight: 18 for the oldest record up to 36 for the newest
           weight == [i \in 1..10 |-> 18 + 2 * (i - 1)]
           votes == SumSeq([i \in 1..10 |-> IF history[i].is_empty THEN weight[i] ELSE 0])
       IN  /\ ret.is_empty <=> 2 * votes > SumSeq(weight)
           /\ ret.is_empty => empty >= 5
           /\ ret.should_alert => empty >= 5
           /\ empty <= 1 => ~ret.is_empty
           /\ empty >= 9 => ret.is_empty

\* C29: a full history of AdvancedShelfDetector whose four newest records
\* are classified empty and whose six older ones are not; the reported state
\* is not empty.
C29_FourNewestEmpty ==
    /\ Analyzed /\ cls = "AdvancedShelfDetector"
    /\ Len(detection_history[ret.shelf_name]) = 10
    /\ EmptyRecords(detection_history[ret.shelf_name]) = 7..10
    /\ ~ret.is_empty

----------------------------------------------------------------------------
(* ShelfMonitoringSystem (main.py) with its EmptyDetector, YOLODetector and *)
(* AlertSystem.  Scores and confidences of this program are ten-thousandths,*)
(* its clock is time.time() in whole seconds.                               *)

\* the latest reading of time.time()
MaxClock == 11
\* entries of alert_history after which no further frame is processed
MaxAlerts == 2

\* shelf_sections of the default configuration, in the order of the dict
Sections == <<"bread", "milk">>

\* shelf_sections[name]['threshold'] of the default configuration: 0.3
section_threshold(section_name) == 3000

\* detection['confidence_threshold'] of the default configuration: 0.5,
\* against box confidences in hundredths
confidence_threshold == 50

\* alerts['display_duration'] / 1000 of the default configuration, seconds
display_seconds == 3

\* the cooldown written into trigger_alert, seconds
alert_cooldown_seconds == 10

\* What extract_section_roi cuts out of a frame for one section: the four
\* scores that the methods of EmptyDetector measure on it (hundredths) and
\* the boxes the YOLO network reports on it (confidence in hundredths, and
\* whether the class is one of shelf_classes); "outside" is a region that
\* lies outside the frame, whose slice has size 0
View(present, scores, boxes) ==
    [present |-> present, scores |-> scores, boxes |-> boxes]

Box(confidence, shelf_class) == [confidence |-> confidence, shelf |-> shelf_class]

OutsideView == View(FALSE, <<0, 0, 0, 0>>, << >>)

SectionViews ==
    { OutsideView,
      \* a bare shelf on which the network finds nothing
      View(TRUE, <<90, 90, 90, 90>>, << >>),
      \* a stocked shelf with one confident product box
      View(TRUE, <<10, 10, 10, 10>>, <<Box(80, TRUE)>>),
      \* a stocked shelf whose only box is below the confidence threshold
      View(TRUE, <<10, 10, 10, 10>>, <<Box(45, TRUE)>>),
      \* a thinly stocked shelf with a product and a box of another class
      View(TRUE, <<30, 20, 30, 35>>, <<Box(90, TRUE), Box(70, FALSE)>>) }

\* EmptyDetector.is_section_empty
is_section_empty(view, threshold) ==
    IF ~view.present
    THEN [is_empty |-> TRUE, confidence |-> 10000]
    ELSE LET combined_score == 30 * view.scores[1] + 20 * view.scores[2]
                               + 30 * view.scores[3] + 20 * view.scores[4]
         IN  [is_empty |-> combined_score > threshold, confidence |-> combined_score]

\* YOLODetector.detect_objects
detect_objects(model, view) ==
    IF model = "None"
    THEN << >>
    ELSE SelectSeq(view.boxes, LAMBDA box : box.confidence >= confidence_threshold)

\* YOLODetector.filter_shelf_related_objects
filter_shelf_related_objects(detections) ==
    SelectSeq(detections, LAMBDA box : box.shelf)

\* the confidences of a list of boxes
Confidences(boxes) == [i \in 1..Len(boxes) |-> boxes[i].confidence]

\* YOLODetector.analyze_section_with_yolo
analyze_section_with_yolo(model, view) ==
    IF ~view.present
    THEN [product_count |-> 0, is_empty |-> TRUE, confidence |-> 10000]
    ELSE LET shelf_objects == filter_shelf_related_objects(detect_objects(model, view))
             product_count == Len(shelf_objects)
             is_empty == product_count = 0
             avg_confidence ==
                 IF shelf_objects # << >>
                 THEN (100 * SumSeq(Confidences(shelf_objects))) \div product_count
                 ELSE IF is_empty THEN 10000 ELSE 0
         IN  [product_count |-> product_count, is_empty |-> is_empty,
              confidence |-> avg_confidence]

\* del d[key] on a python dict
Delete(d, key) == [k \in DOMAIN d \ {key} |-> d[k]]

\* AlertSystem.trigger_alert on the alert system sys
trigger_alert(sys, section_name, confidence) ==
    LET current_time == sys.clock
        alert == [section |-> section_name, confidence |-> confidence,
                  timestamp |-> current_time]
    IN  IF /\ section_name \in DOMAIN sys.active_alerts
           /\ current_time - sys.active_alerts[section_name].timestamp
                  < alert_cooldown_seconds
        THEN sys
        ELSE [sys EXCEPT !.active_alerts = Put(@, section_name, alert),
                         !.alert_history = Append(@, alert)]

\* AlertSystem.clear_alert
clear_alert(sys, section_name) ==
    IF section_name \in DOMAIN sys.active_alerts
    THEN [sys EXCEPT !.active_alerts = Delete(@, section_name)]
    ELSE sys

\* AlertSystem.draw_alerts_on_frame: the clean-up of old alerts
draw_alerts_on_frame(sys) ==
    LET expired_alerts ==
            {s \in DOMAIN sys.active_alerts :
                sys.clock - sys.active_alerts[s].timestamp > display_seconds}
    IN  [sys EXCEPT !.active_alerts = [s \in DOMAIN @ \ expired_alerts |-> @[s]]]

\* one turn of the loop of process_frame over the sections
process_section(sys, section_name, view) ==
    IF ~view.present
    THEN sys
    ELSE LET threshold == section_threshold(section_name)
             traditional == is_section_empty(view, threshold)
             yolo_result == analyze_section_with_yolo(sys.model, view)
             combined_confidence ==
                 (7 * traditional.confidence + 3 * yolo_result.confidence) \div 10
             is_empty_combined ==
                 \/ traditional.is_empty
                 \/ yolo_result.is_empty /\ yolo_result.confidence > 5000
             stored == [sys EXCEPT !.results =
                           Put(@, section_name,
                               [is_empty |-> is_empty_combined,
                                confidence |-> combined_confidence,
                                traditional_result |-> traditional,
                                yolo_result |-> yolo_result])]
         IN  IF is_empty_combined /\ combined_confidence > threshold
             THEN trigger_alert(stored, section_name, combined_confidence)
             ELSE clear_alert(stored, section_name)

RECURSIVE process_sections(_, _, _)
process_sections(sys, frame, i) ==
    IF i > Len(Sections)
    THEN sys
    ELSE process_sections(process_section(sys, Sections[i], frame[i]), frame, i + 1)

\* ShelfMonitoringSystem.process_frame on a frame, given as the view it
\* offers of each section
process_frame(frame) ==
    /\ system.constructed
    /\ system' = process_sections([system EXCEPT !.results = << >>], frame, 1)

\* ShelfMonitoringSystem.__init__: the YOLO model loads or fails to load
ShelfMonitoringSystem_init ==
    /\ ~system.constructed
    /\ \E model \in {"loaded", "None"} :
           system' = [constructed |-> TRUE, model |-> model,
                      active_alerts |-> << >>, alert_history |-> << >>,
                      results |-> << >>, clock |-> 0]
    /\ UNCHANGED <<cls, sensitivity, supplied_sensitivity, empty_threshold,
                   yolo_model, detection_history, alert_cooldown, frame_count,
                   ret, alert_log, alone, app>>

ProcessFrame ==
    \E frame \in [1..Len(Sections) -> SectionViews] :
        /\ system.constructed
        /\ Len(system.alert_history) < MaxAlerts
        /\ process_frame(frame)
        /\ UNCHANGED <<cls, sensitivity, supplied_sensitivity, empty_threshold,
                       yolo_model, detection_history, alert_cooldown, frame_count,
                       ret, alert_log, alone, app>>

\* visualize_frame, which draws the alerts on the processed frame
VisualizeFrame ==
    /\ system.constructed
    /\ system' = draw_alerts_on_frame(system)
    /\ UNCHANGED <<cls, sensitivity, supplied_sensitivity, empty_threshold,
                   yolo_model, detection_history, alert_cooldown, frame_count,
                   ret, alert_log, alone, app>>

\* a second passes on the clock that time.time() reads
Tick ==
    /\ system.constructed
    /\ system.clock < MaxClock
    /\ system' = [system EXCEPT !.clock = @ + 1]
    /\ UNCHANGED <<cls, sensitivity, supplied_sensitivity, empty_threshold,
                   yolo_model, detection_history, alert_cooldown, frame_count,
                   ret, alert_log, alone, app>>

\* no detector of the seven classes takes part in this program
InitSystem == Init /\ cls = "SimpleShelfDetector"

NextSystem == ShelfMonitoringSystem_init \/ ProcessFrame \/ VisualizeFrame \/ Tick

SpecSystem == InitSystem /\ [][NextSystem]_vars

----------------------------------------------------------------------------
(* C26: in process_frame, when the YOLO model is None, the combined         *)
(* is_empty stored for each section equals the is_empty that EmptyDetector  *)
(* returned for that section.                                               *)
C26_CombinedEqualsHeuristic ==
    system.constructed /\ system.model = "None" =>
        \A s \in DOMAIN system.results :
            system.results[s].is_empty = system.results[s].traditional_result.is_empty

----------------------------------------------------------------------------
(* C27: two entries of alert_history for the same section are at least 10   *)
(* seconds apart, whatever the order of the process_frame calls (which      *)
(* call trigger_alert or clear_alert) and of the draw_alerts_on_frame calls.*)
C27_HistoryEntriesApart ==
    system.constructed =>
        \A i, j \in 1..Len(system.alert_history) :
            /\ i < j
            /\ system.alert_history[i].section = system.alert_history[j].section
            => system.alert_history[j].timestamp - system.alert_history[i].timestamp
                   >= alert_cooldown_seconds

----------------------------------------------------------------------------
(* ModernShelfMonitoringApp (modern_gui.py): the Start/Stop button and the  *)
(* monitoring_loop threads.  self.detector is the detector of the variables *)
(* above; a thread is at the while test of its loop ("while"), in the body  *)
(* before update_sensitivity ("update") or before analyze_shelf_region      *)
(* ("analyze"), or has left the loop ("done").                              *)

\* presses of Start Monitoring per behaviour, one thread each
MaxStarts == 2
\* analyze calls that one detector of the application receives
MaxCallsApp == 2
\* timestamps of the loop are k half-cooldowns, k in 0..MaxTickApp
MaxTickApp == 1

\* self.sensitivity_var.get(): the slider stays where it is, tenths
sensitivity_var == 7

\* ModernShelfMonitoringApp.__init__
ModernShelfMonitoringApp_init ==
    /\ ~app.constructed
    /\ app' = [constructed |-> TRUE, is_monitoring |-> FALSE, threads |-> << >>]
    /\ UNCHANGED <<cls, sensitivity, supplied_sensitivity, empty_threshold,
                   yolo_model, detection_history, alert_cooldown, frame_count,
                   ret, alert_log, alone, system>>

\* start_monitoring with an area defined: a new YOLOv8mShelfDetector becomes
\* self.detector and a new thread is started on monitoring_loop
start_monitoring ==
    /\ cls' = "YOLOv8mShelfDetector"
    /\ supplied_sensitivity' = sensitivity_var
    /\ sensitivity' = sensitivity_var
    /\ empty_threshold' = -1
    /\ yolo_model' = yolo_model
    /\ detection_history' = << >>
    /\ alert_cooldown' = << >>
    /\ frame_count' = 0
    /\ ret' = Called("__init__", "")
    /\ alert_log' = [s \in DOMAIN alert_log |-> << >>]
    /\ alone' = [known |-> FALSE, history |-> << >>, last |-> 0, frame_count |-> 0]
    /\ app' = [app EXCEPT !.is_monitoring = TRUE, !.threads = Append(@, "while")]

\* stop_monitoring
stop_monitoring ==
    /\ app' = [app EXCEPT !.is_monitoring = FALSE]
    /\ UNCHANGED <<cls, sensitivity, supplied_sensitivity, empty_threshold,
                   yolo_model, detection_history, alert_cooldown, frame_count,
                   ret, alert_log, alone>>

\* toggle_monitoring: the button starts when not monitoring, stops otherwise
ToggleStart ==
    /\ app.constructed
    /\ ~app.is_monitoring
    /\ Len(app.threads) < MaxStarts
    /\ start_monitoring
    /\ UNCHANGED system

ToggleStop ==
    /\ app.constructed
    /\ app.is_monitoring
    /\ stop_monitoring
    /\ UNCHANGED system

\* `while self.is_monitoring and ...` of monitoring_loop in thread t
LoopWhile(t) ==
    /\ app.threads[t] = "while"
    /\ app' = [app EXCEPT !.threads[t] = IF app.is_monitoring THEN "update" ELSE "done"]
    /\ UNCHANGED <<cls, sensitivity, supplied_sensitivity, empty_threshold,
                   yolo_model, detection_history, alert_cooldown, frame_count,
                   ret, alert_log, alone, system>>

\* self.detector.update_sensitivity(self.sensitivity_var.get()) in thread t
LoopUpdate(t) ==
    /\ app.threads[t] = "update"
    /\ update_sensitivity(sensitivity_var)
    /\ app' = [app EXCEPT !.threads[t] = "analyze"]
    /\ UNCHANGED system

\* self.detector.analyze_shelf_region(roi, name, current_time) in thread t
\* for the one defined area, then the sleep and the jump back to the test
LoopAnalyze(t) ==
    \E roi \in MonitoredRegions, timestamp \in Timestamps(cls, MaxTickApp) :
        /\ app.threads[t] = "analyze"
        /\ frame_count < MaxCallsApp
        /\ analyze_shelf_region(roi, "A", timestamp)
        /\ app' = [app EXCEPT !.threads[t] = "while"]
        /\ UNCHANGED system

\* the steps of monitoring_loop in any of the threads started so far
TestWhile ==
    /\ app.constructed
    /\ \E t \in 1..Len(app.threads) : LoopWhile(t)

UpdateDetector ==
    /\ app.constructed
    /\ \E t \in 1..Len(app.threads) : LoopUpdate(t)

AnalyzeArea ==
    /\ app.constructed
    /\ \E t \in 1..Len(app.threads) : LoopAnalyze(t)

\* the detector variables hold no detector until start_monitoring
InitApp == Init /\ cls = "YOLOv8mShelfDetector"

NextApp ==
    \/ ModernShelfMonitoringApp_init
    \/ ToggleStart
    \/ ToggleStop
    \/ TestWhile
    \/ UpdateDetector
    \/ AnalyzeArea

SpecApp == InitApp /\ [][NextApp]_vars

----------------------------------------------------------------------------
(* C28: whatever the sequence of Start/Stop presses, only one               *)
(* monitoring_loop thread runs and calls the detector: a thread started     *)
(* before a stop leaves its loop, so the only thread that passes the while  *)
(* test of the loop is the one started last.                                *)
C28_OnlyLatestLoopRuns ==
    [][app.constructed /\ app'.constructed =>
          \A t \in 1..Len(app.threads) :
              app.threads[t] = "while" /\ app'.threads[t] = "update"
                  => t = Len(app.threads)]_vars

====
